---------------------------- MODULE Spec2Model ----------------------------
(***************************************************************************)
(* Model of pims-plugin-format-msi: the imzML -> Zarr conversion engine    *)
(* (utils/imzml/convertor/backend.py), its PIMS front end                  *)
(* (convertor/frontend.py), the header/payload pair resolver               *)
(* (utils/imzml/utils.py) and the UUID check (utils/imzml/checker.py).     *)
(*                                                                         *)
(* The payload (.ibd) is a byte file; the element stored at byte offset o  *)
(* is represented by the number o itself, so that a value found in the     *)
(* destination tells which payload position it was read from.  Offsets     *)
(* start after the 16-byte UUID, hence every payload value is non-zero and *)
(* differs from the fill value 0 of the destination arrays.                *)
(***************************************************************************)
EXTENDS Integers, Sequences, FiniteSets, TLC

VARIABLES
    inp,        \* the call's arguments and the files they name (never changes)
    pc,         \* position inside convert / run
    dest,       \* what is at zarr_path
    callbacks,  \* callbacks registered on the ExitStack
    rmdirCalls, \* number of dest_store.rmdir calls performed
    data,       \* the ImzMLData returned by get_data_from_parser
    todo,       \* chunk_lst still to be processed by read_binary_data
    flat_to_idx,\* mapping returned by add_chunk_idx
    ibd,        \* payload file handle: [open, opens, reads]
    hdrOpens,   \* number of times the header file was opened
    writes,     \* region writes issued so far: <<array name, chunk coordinate>>
    result,     \* "none" while running, "True" / "False" returned, "raised"
    fe,         \* front end: [pc, pair, result]
    pl,         \* planner run (intensity_chunks): [pc, chunks, last_idx]
    uu,         \* check_uuid run: [pc, result]
    cp,         \* run of the scratch-store convertor's bulk copies: [pc, todo, copies]
    ts,         \* use of a temporary-store context: [pc, created, stores, removed]
    ix          \* successive add_chunk_idx calls on one table: [pc, spectra, flat_to_idx]

vars == <<inp, pc, dest, callbacks, rmdirCalls, data, todo, flat_to_idx, ibd,
          hdrOpens, writes, result, fe, pl, uu, cp, ts, ix>>

-----------------------------------------------------------------------------
(* Bounds of the model *)

\* largest spectrum length (number of m/z channels of one pixel)
MaxLen == 2
\* largest number of spectra declared by a header
MaxRecords == 2
\* largest height and width of the shapes handed to the planner alone
MaxPlanDim == 3
\* largest number of files in the directory handed to the front end
MaxFiles == 3
\* largest number of temporary stores asked of one context
MaxStores == 3
\* largest number of add_chunk_idx calls on one record table
MaxCalls == 2
\* byte size over which a scratch array is not copied whole; it stands for
\* _DISK_COPY_THRESHOLD = 8 * 10 ** 9, which exceeds TLC's integers
DiskCopyThreshold == 16

\* a budget no modelled dataset reaches; it stands for the default max_size
\* of BaseImzMLConvertor.__init__, 4 * 2**30, which exceeds TLC's integers
BigBudget == 1000000

\* bytes of the UUID at the head of the payload (ibd.read(16))
UuidBytes == 16

\* fill value of arrays made by root.zeros
FillValue == 0

Min(a, b) == IF a < b THEN a ELSE b
Max(a, b) == IF a > b THEN a ELSE b

\* math.ceil(a / b) for a >= 0, b > 0
CeilDiv(a, b) == (a + b - 1) \div b

Range(f) == {f[i] : i \in DOMAIN f}

-----------------------------------------------------------------------------
(* The input pair: a header (.imzML) and its payload (.ibd).               *)

\* the layout markers a header may declare in its file description
Markers == {"continuous", "processed"}

\* header coordinates are 1-based: x in 1..maxX, y in 1..maxY, z = 1
HeaderPixels(maxY, maxX) == {<<x, y>> : x \in 1..maxX, y \in 1..maxY}

\* row-major rank of a header pixel, used to list a set of pixels in file order
PixelKey(p, maxX) == (p[2] - 1) * maxX + p[1]

RECURSIVE PixelSeq(_, _)
PixelSeq(S, maxX) ==
    IF S = {} THEN <<>>
    ELSE LET p == CHOOSE q \in S : \A r \in S : PixelKey(q, maxX) <= PixelKey(r, maxX)
         IN  <<p>> \o PixelSeq(S \ {p}, maxX)

Reverse(s) == [i \in 1..Len(s) |-> s[Len(s) + 1 - i]]

\* byte offset of the first array of spectrum i when the payload stores, after
\* the UUID, the arrays of the spectra one after the other (processed layout)
RECURSIVE ProcessedBase(_, _, _, _)
ProcessedBase(i, ls, mz_size, int_size) ==
    IF i = 1 THEN UuidBytes
    ELSE ProcessedBase(i - 1, ls, mz_size, int_size)
         + ls[i - 1] * (mz_size + int_size)

\* The <spectrum> elements of a header: 1-based coordinates, the byte offsets
\* of the m/z and intensity arrays in the payload, and the array length.
\* Continuous: one shared m/z array right after the UUID, then the intensity
\* arrays. Processed: each spectrum's m/z array followed by its intensities.
HeaderSpectra(ps, ls, continuous, mz_size, int_size) ==
    [i \in 1..Len(ps) |->
        [x |-> ps[i][1], y |-> ps[i][2], z |-> 1,
         mz_offset |-> IF continuous THEN UuidBytes
                       ELSE ProcessedBase(i, ls, mz_size, int_size),
         int_offset |-> IF continuous
                        THEN UuidBytes + ls[1] * mz_size + (i - 1) * ls[1] * int_size
                        ELSE ProcessedBase(i, ls, mz_size, int_size) + ls[i] * mz_size,
         length |-> ls[i]]]

\* the per-spectrum lengths a header may declare: one common length in a
\* continuous file, independent lengths in a processed file
LengthSeqs(n, continuous) ==
    IF continuous THEN {[i \in 1..n |-> l] : l \in 1..MaxLen}
    ELSE [1..n -> 1..MaxLen]

\* the element stored at byte offset o of the payload
Payload(o) == o

\* np.fromfile(file, count, dtype) after file.seek(offset): count elements of
\* size bytes each, the k-th (0-based) being the element at offset + k*size
FromFile(offset, count, size) == [k \in 0..(count - 1) |-> Payload(offset + k * size)]

-----------------------------------------------------------------------------
(* backend.py: get_data_from_parser                                        *)

\* values of a function result that raised
Raised(err) == [ok |-> FALSE, err |-> err]

\* mutant of InvalidFileMode: only a header declaring both markers is refused
BothFileModes(is_continuous, is_processed) == is_continuous /\ is_processed

\* mutant of InvalidFileMode: only a header declaring no marker is refused
NeitherFileMode(is_continuous, is_processed) == ~is_continuous /\ ~is_processed

\* the check for binary mode: exactly one marker must be declared
InvalidFileMode(is_continuous, is_processed) == is_continuous = is_processed

\* spectra table: header coordinates offset for 0-based indexing
ParseSpectra(hs) ==
    [i \in 1..Len(hs) |->
        [x |-> hs[i].x - 1, y |-> hs[i].y - 1, z |-> hs[i].z - 1,
         mz_offset |-> hs[i].mz_offset, int_offset |-> hs[i].int_offset,
         length |-> hs[i].length, chunk_idx |-> -1]]

\* get_data_from_parser(imzml, ibd): an ImzMLData, or the error raised.
\* Only the header is opened (ibd_file=None).
get_data_from_parser(in) ==
    LET is_continuous == "continuous" \in in.markers
        is_processed == "processed" \in in.markers
    IN  IF in.fault = "parser" THEN Raised("Exception")
        ELSE IF InvalidFileMode(is_continuous, is_processed) THEN Raised("ValueError")
        ELSE [ok |-> TRUE, err |-> "",
              spectra |-> ParseSpectra(in.spectra),
              has_chunk_idx |-> FALSE,
              mz_size |-> in.mz_size,
              int_size |-> in.int_size,
              pixel_count |-> <<1, in.maxY, in.maxX>>,
              is_continuous |-> is_continuous,
              source_imzml |-> "imzml",
              source_ibd |-> "ibd",
              uuid |-> in.uuid]

\* value of `data` before get_data_from_parser has returned
NoData == [ok |-> FALSE, err |-> "unset"]

-----------------------------------------------------------------------------
(* backend.py: the Layout Planner (intensity_shape, intensity_chunks)      *)

RECURSIVE MaxLength(_, _)
MaxLength(spectra, n) ==
    IF n = 1 THEN spectra[1].length
    ELSE Max(spectra[n].length, MaxLength(spectra, n - 1))

\* ContinuousImzMLConvertor.intensity_shape: spectra.loc[0, "length"] is a
\* KeyError on an empty table
ContinuousIntensityShape(d) ==
    IF Len(d.spectra) = 0 THEN Raised("KeyError")
    ELSE [ok |-> TRUE, err |-> "", shape |-> <<d.spectra[1].length>> \o d.pixel_count]

\* mutant of ProcessedIntensityShape: the first record's length is used, as
\* in a continuous file
ProcessedShapeFromFirst(d) ==
    IF Len(d.spectra) = 0 THEN Raised("ValueError")
    ELSE [ok |-> TRUE, err |-> "", shape |-> <<d.spectra[1].length>> \o d.pixel_count]

\* ProcessedImzMLConvertor.intensity_shape: the max of an empty column is
\* NaN, which no later step accepts as a dimension
ProcessedIntensityShape(d) ==
    IF Len(d.spectra) = 0 THEN Raised("ValueError")
    ELSE [ok |-> TRUE, err |-> "",
          shape |-> <<MaxLength(d.spectra, Len(d.spectra))>> \o d.pixel_count]

intensity_shape(d) ==
    IF d.is_continuous THEN ContinuousIntensityShape(d) ELSE ProcessedIntensityShape(d)

\* mutant of PlanItemSize: the m/z item size never enters the cost
IntItemSize(is_continuous, int_size, mz_size) == int_size

\* item_size of intensity_chunks: m/z does not weigh in a continuous file
PlanItemSize(is_continuous, int_size, mz_size) ==
    IF is_continuous THEN int_size ELSE Max(int_size, mz_size)

\* mutant of TempChunkSize: the cost is taken from the chunk shape alone
ChunkOnlySize(shape, chunks, item_size) ==
    chunks[1] * chunks[2] * chunks[3] * chunks[4] * item_size

\* temp_chunk_size: data is read in full band chunks, so the channel count of
\* the shape (not of the chunks) enters the cost
TempChunkSize(shape, chunks, item_size) ==
    shape[1] * chunks[2] * chunks[3] * chunks[4] * item_size

\* the index the inner loop starts from: min(1, (last_idx + 1) % len(chunks))
StartIdx(last_idx) == Min(1, (last_idx + 1) % 4)

\* mutant of SkipOnes: the search gives up at the first chunk size equal to 1
GiveUpAtOne(chunks, idx) ==
    IF idx >= 4 THEN 4
    ELSE IF chunks[idx + 1] = 1 THEN 4
    ELSE idx

\* mutant of SkipOnes: the inner loop does not step over chunk sizes of 1
NoSkip(chunks, idx) == IF idx >= 4 THEN 4 ELSE idx

\* the inner while loop: starting at Python index idx, the first index whose
\* chunk size is not 1, or len(chunks) = 4 when there is none
RECURSIVE SkipOnes(_, _)
SkipOnes(chunks, idx) ==
    IF idx >= 4 THEN 4
    ELSE IF chunks[idx + 1] = 1 THEN SkipOnes(chunks, idx + 1)
    ELSE idx

\* one iteration of the outer `while True` loop on the state [chunks, last_idx]
\* (Python indices 0..3 address chunks[1..4] here): "break" with the chunks,
\* "raise", or "continue" with one chunk size halved
ShrinkIter(shape, item_size, max_size, st) ==
    IF TempChunkSize(shape, st.chunks, item_size) < max_size
    THEN [st EXCEPT !.pc = "break"]
    ELSE LET idx == SkipOnes(st.chunks, StartIdx(st.last_idx))
         IN  IF idx = 4 THEN [st EXCEPT !.pc = "raise"]
             ELSE [pc |-> "continue",
                   chunks |-> [st.chunks EXCEPT ![idx + 1] = CeilDiv(@, 2)],
                   last_idx |-> idx]

RECURSIVE ShrinkLoop(_, _, _, _)
ShrinkLoop(shape, item_size, max_size, st) ==
    LET nx == ShrinkIter(shape, item_size, max_size, st)
    IN  IF nx.pc = "continue" THEN ShrinkLoop(shape, item_size, max_size, nx) ELSE nx

\* state of the loop on entry: the normalized chunks and last_idx = 1
ShrinkStart(chunks) == [pc |-> "continue", chunks |-> chunks, last_idx |-> 1]

\* BaseImzMLConvertor.intensity_chunks, from the chunking normalize_chunks
\* returned for the call's `chunks` argument: the chunk shape, or ValueError
intensity_chunks(shape, init_chunks, item_size, max_size) ==
    LET fin == ShrinkLoop(shape, item_size, max_size, ShrinkStart(init_chunks))
    IN  IF fin.pc = "raise" THEN Raised("ValueError")
        ELSE [ok |-> TRUE, err |-> "", chunks |-> fin.chunks]

-----------------------------------------------------------------------------
(* The destination store: zarr arrays held under zarr_path                 *)

\* indices of an array of the given 4-d shape
Indices(shape) ==
    {<<c, z, y, x>> : c \in 0..(shape[1] - 1), z \in 0..(shape[2] - 1),
                      y \in 0..(shape[3] - 1), x \in 0..(shape[4] - 1)}

\* an array slot of the store in which no array was created
NoArray == [exists |-> FALSE, shape |-> <<0, 0, 0, 0>>, chunks |-> <<0, 0, 0, 0>>,
            size |-> 0, values |-> <<>>]

\* root.zeros(name, shape, dtype, chunks): every element is the fill value
Zeros(shape, chunks, size) ==
    [exists |-> TRUE, shape |-> shape, chunks |-> chunks, size |-> size,
     values |-> [i \in Indices(shape) |-> FillValue]]

\* nothing at zarr_path
Absent == [kind |-> "absent"]

\* something that was at zarr_path before the call
Existing == [kind |-> "existing"]

\* zarr.group(store=DirectoryStore(zarr_path)): the directory with an empty
\* root group
EmptyStore ==
    [kind |-> "store", zgroup |-> TRUE, multiscales |-> <<>>, pims_msi |-> <<>>,
     labels |-> <<>>, int |-> NoArray, mzs |-> NoArray, lengths |-> NoArray]

\* the directory made by a group creation that failed before .zgroup was written
PartialStore == [EmptyStore EXCEPT !.zgroup = FALSE]

-----------------------------------------------------------------------------
(* backend.py: the Chunk Indexer (add_chunk_idx)                           *)

\* chunk_counts: ceil() for incomplete chunks
ChunkCounts(spatial_shape, spatial_chunks) ==
    [a \in 1..3 |-> CeilDiv(spatial_shape[a], spatial_chunks[a])]

\* mutant of Strides: every axis is given the stride 1
UnitStrides(counts) == <<1, 1, 1>>

\* strides = [1, counts[0], counts[0] * counts[1]] over the ZYX axes
Strides(counts) == <<1, counts[1], counts[1] * counts[2]>>

\* coordinate // chunk per axis, in ZYX order
PerChunkIdx(row, spatial_chunks) ==
    <<row.z \div spatial_chunks[1], row.y \div spatial_chunks[2],
      row.x \div spatial_chunks[3]>>

FlatIdx(per_chunk_idx, strides) ==
    per_chunk_idx[1] * strides[1] + per_chunk_idx[2] * strides[2]
    + per_chunk_idx[3] * strides[3]

RowFlatIdx(row, spatial_shape, spatial_chunks) ==
    FlatIdx(PerChunkIdx(row, spatial_chunks),
            Strides(ChunkCounts(spatial_shape, spatial_chunks)))

\* flat_to_idx: built row after row, a later row replacing an earlier entry
FlatToIdx(spectra, spatial_shape, spatial_chunks) ==
    LET flats == {RowFlatIdx(spectra[i], spatial_shape, spatial_chunks) :
                    i \in 1..Len(spectra)}
        last(f) == CHOOSE i \in 1..Len(spectra) :
                     /\ RowFlatIdx(spectra[i], spatial_shape, spatial_chunks) = f
                     /\ \A j \in (i + 1)..Len(spectra) :
                          RowFlatIdx(spectra[j], spatial_shape, spatial_chunks) # f
    IN  [f \in flats |-> PerChunkIdx(spectra[last(f)], spatial_chunks)]

\* the 'chunk_idx' column is assigned only if the table has none yet
WithChunkIdx(d, spatial_shape, spatial_chunks) ==
    IF d.has_chunk_idx THEN d
    ELSE [d EXCEPT !.has_chunk_idx = TRUE,
                   !.spectra = [i \in 1..Len(d.spectra) |->
                       [d.spectra[i] EXCEPT !.chunk_idx =
                           RowFlatIdx(d.spectra[i], spatial_shape, spatial_chunks)]]]

\* spectra.chunk_idx.unique(): the values in order of first appearance
RECURSIVE Unique(_, _)
Unique(spectra, n) ==
    IF n = 0 THEN <<>>
    ELSE LET before == Unique(spectra, n - 1)
         IN  IF spectra[n].chunk_idx \in Range(before) THEN before
             ELSE Append(before, spectra[n].chunk_idx)

\* mutant of RowsOfChunk: only the first record of the group is selected
FirstRowOfChunk(spectra, chunk_idx) ==
    SubSeq(SelectSeq(spectra, LAMBDA r : r.chunk_idx = chunk_idx), 1, 1)

\* spectra[spectra.chunk_idx == chunk_idx]
RowsOfChunk(spectra, chunk_idx) == SelectSeq(spectra, LAMBDA r : r.chunk_idx = chunk_idx)

-----------------------------------------------------------------------------
(* backend.py: the Binary Transcoder (read_chunk_into)                     *)

\* low_idx / high_idx of the chunk along the ZYX axes, the high end clipped
\* at the array's shape
\* mutant of LowIdx: the chunk's origin is counted in whole arrays
LowIdxFromShape(array, chunk_idx) == [a \in 1..3 |-> chunk_idx[a] * array.shape[a + 1]]

LowIdx(array, chunk_idx) == [a \in 1..3 |-> chunk_idx[a] * array.chunks[a + 1]]

HighIdx(array, chunk_idx) ==
    [a \in 1..3 |-> Min(array.shape[a + 1], (chunk_idx[a] + 1) * array.chunks[a + 1])]

\* shape of the buffer allocated for the chunk
BufferShape(array, chunk_idx) ==
    <<array.shape[1]>> \o
    [a \in 1..3 |-> HighIdx(array, chunk_idx)[a] - LowIdx(array, chunk_idx)[a]]

\* the elements np.fromfile returns: those wholly inside the payload file
Available(offset, count, size, ibd_size) ==
    IF offset >= ibd_size THEN 0 ELSE Min(count, (ibd_size - offset) \div size)

\* mutant of RowOffset: offset_idx addresses the m/z column whatever was asked
RowOffsetMz(row, column) == row.mz_offset

\* the row's offset column selected by offset_idx
RowOffset(row, column) == IF column = "mz_offset" THEN row.mz_offset ELSE row.int_offset

\* buffer[idx] = np.fromfile(...) for one row: the local index must lie in the
\* buffer, and the values read must fill the slot slice(length) exactly (a
\* single value is broadcast); otherwise numpy raises
PlaceRow(buf, row, low, column, size, ibd_size) ==
    LET shape == buf.shape
        local == <<row.z - low[1], row.y - low[2], row.x - low[3]>>
        got == Available(RowOffset(row, column), row.length, size, ibd_size)
        vals == FromFile(RowOffset(row, column), got, size)
        slot == Min(row.length, shape[1])
    IN  IF \E a \in 1..3 : local[a] < 0 \/ local[a] >= shape[a + 1]
        THEN [buf EXCEPT !.ok = FALSE, !.err = "IndexError"]
        ELSE IF got # slot /\ got # 1
        THEN [buf EXCEPT !.ok = FALSE, !.err = "ValueError"]
        ELSE [buf EXCEPT !.values =
                [i \in DOMAIN buf.values |->
                    IF <<i[2], i[3], i[4]>> = local /\ i[1] < slot
                    THEN (IF got = 1 THEN vals[0] ELSE vals[i[1]])
                    ELSE buf.values[i]]]

\* the loop over the rows of the chunk; it stops at the first row that raises
RECURSIVE PlaceRows(_, _, _, _, _, _, _)
PlaceRows(buf, rows, n, low, column, size, ibd_size) ==
    IF n = 0 THEN buf
    ELSE LET before == PlaceRows(buf, rows, n - 1, low, column, size, ibd_size)
         IN  IF before.ok THEN PlaceRow(before, rows[n], low, column, size, ibd_size)
             ELSE before

\* mutant of ZeroBuffer: the buffer is allocated without being cleared
UnclearedBuffer(shape) ==
    [ok |-> TRUE, err |-> "", shape |-> shape, values |-> [i \in Indices(shape) |-> 7]]

\* buffer = np.zeros(shape, dtype): lines 202-211
ZeroBuffer(shape) ==
    [ok |-> TRUE, err |-> "", shape |-> shape, values |-> [i \in Indices(shape) |-> 0]]

\* read_chunk_into(array, file, spectra, chunk_idx, offset_idx): a zero
\* buffer of the clipped chunk shape is filled row by row, then written to the
\* array in one region write array[chunk_slice] = buffer
read_chunk_into(array, rows, chunk_idx, column, ibd_size) ==
    LET low == LowIdx(array, chunk_idx)
        high == HighIdx(array, chunk_idx)
        buf == PlaceRows(ZeroBuffer(BufferShape(array, chunk_idx)), rows, Len(rows), low, column, array.size, ibd_size)
        inSlice(i) == \A a \in 1..3 : low[a] <= i[a + 1] /\ i[a + 1] < high[a]
    IN  IF ~buf.ok THEN [ok |-> FALSE, err |-> buf.err, array |-> array]
        ELSE [ok |-> TRUE, err |-> "",
              array |-> [array EXCEPT !.values =
                  [i \in DOMAIN array.values |->
                      IF inSlice(i)
                      THEN buf.values[<<i[1], i[2] - low[1], i[3] - low[2], i[4] - low[3]>>]
                      ELSE array.values[i]]]]

-----------------------------------------------------------------------------
(* backend.py: the Store Assembler (BaseImzMLConvertor.run and subclasses) *)

get_labels(is_continuous) ==
    IF is_continuous THEN <<"mzs/0">> ELSE <<"mzs/0", "lengths/0">>

\* add_base_metadata: the multiscales and pims-msi attributes of the root
\* group, and the labels group with its listing
add_base_metadata(store, name, d) ==
    [store EXCEPT
        !.multiscales = <<[version |-> "0.3", name |-> name,
                           datasets |-> <<"0">>, axes |-> <<"c", "z", "y", "x">>,
                           type |-> "none"]>>,
        !.pims_msi = <<[source |-> d.source_imzml, uuid |-> d.uuid,
                        binary_mode |-> IF d.is_continuous THEN "continuous"
                                        ELSE "processed"]>>,
        !.labels = get_labels(d.is_continuous)]

\* shape and chunks of the m/z label array
mz_shape(is_continuous, int_shape) ==
    IF is_continuous THEN <<int_shape[1], 1, 1, 1>> ELSE int_shape

mz_chunks(is_continuous, int_chunks) ==
    IF is_continuous THEN <<int_chunks[1], 1, 1, 1>> ELSE int_chunks

\* shape and chunks of the lengths label array (processed files)
lengths_shape(pixel_count) == <<1>> \o pixel_count

lengths_chunks(int_chunks) == <<1, int_chunks[2], int_chunks[3], int_chunks[4]>>

\* create_zarr_arrays: the empty arrays inside the root group. The chunk
\* shape is planned here, on the first use of intensity_chunks. `fails` is an
\* I/O failure of the store met while the m/z array is created.
create_zarr_arrays(store, d, init_chunks, max_size, fails) ==
    LET shape == intensity_shape(d)
        plan == intensity_chunks(shape.shape, init_chunks,
                    PlanItemSize(d.is_continuous, d.int_size, d.mz_size), max_size)
        withInt == [store EXCEPT !.int = Zeros(shape.shape, plan.chunks, d.int_size)]
        withMzs == [withInt EXCEPT !.mzs =
                       Zeros(mz_shape(d.is_continuous, shape.shape),
                             mz_chunks(d.is_continuous, plan.chunks), d.mz_size)]
    IN  IF ~shape.ok THEN [ok |-> FALSE, err |-> shape.err, store |-> store]
        ELSE IF ~plan.ok THEN [ok |-> FALSE, err |-> plan.err, store |-> store]
        ELSE IF fails THEN [ok |-> FALSE, err |-> "Exception", store |-> withInt]
        ELSE IF d.is_continuous THEN [ok |-> TRUE, err |-> "", store |-> withMzs]
        ELSE [ok |-> TRUE, err |-> "",
              store |-> [withMzs EXCEPT !.lengths =
                            Zeros(lengths_shape(d.pixel_count),
                                  lengths_chunks(plan.chunks), 4)]]

\* ContinuousImzMLConvertor.read_binary_data, first part: the shared m/z axis
\* is read from the first record's mz_offset into mzs[:, 0, 0, 0]
ReadMzAxis(mzs, d, ibd_size) ==
    LET count == d.spectra[1].length
        got == Available(d.spectra[1].mz_offset, count, d.mz_size, ibd_size)
        vals == FromFile(d.spectra[1].mz_offset, got, d.mz_size)
    IN  IF got # mzs.shape[1] /\ got # 1
        THEN [ok |-> FALSE, err |-> "ValueError", array |-> mzs]
        ELSE [ok |-> TRUE, err |-> "",
              array |-> [mzs EXCEPT !.values =
                  [i \in DOMAIN mzs.values |-> IF got = 1 THEN vals[0] ELSE vals[i[1]]]]]

\* mutant of ReadLengths: the y and x indices of the lengths buffer are swapped
ReadLengthsSwapped(lengths, spectra) ==
    LET rowsAt(i) == {k \in 1..Len(spectra) :
                        <<spectra[k].z, spectra[k].x, spectra[k].y>> = <<i[2], i[3], i[4]>>}
        lastAt(i) == CHOOSE k \in rowsAt(i) : \A j \in rowsAt(i) : j <= k
    IN  [lengths EXCEPT !.values =
            [i \in DOMAIN lengths.values |->
                IF rowsAt(i) = {} THEN 0 ELSE spectra[lastAt(i)].length]]

\* ProcessedImzMLConvertor.read_binary_data, first part: the lengths buffer is
\* filled from the rows (a later row overwriting an earlier one on the same
\* pixel) and written to the lengths array at once
ReadLengths(lengths, spectra) ==
    LET rowsAt(i) == {k \in 1..Len(spectra) :
                        <<spectra[k].z, spectra[k].y, spectra[k].x>> = <<i[2], i[3], i[4]>>}
        lastAt(i) == CHOOSE k \in rowsAt(i) : \A j \in rowsAt(i) : j <= k
    IN  [lengths EXCEPT !.values =
            [i \in DOMAIN lengths.values |->
                IF rowsAt(i) = {} THEN 0 ELSE spectra[lastAt(i)].length]]

\* one pass of the loop over chunk_lst: the chunk's rows are read into the
\* m/z array (processed files only) and then into the intensity array
ReadOneChunk(store, d, chunk_idx, per_chunk_idx, ibd_size) ==
    LET rows == RowsOfChunk(d.spectra, chunk_idx)
        m == IF d.is_continuous THEN [ok |-> TRUE, err |-> "", array |-> store.mzs]
             ELSE read_chunk_into(store.mzs, rows, per_chunk_idx, "mz_offset", ibd_size)
        n == read_chunk_into(store.int, rows, per_chunk_idx, "int_offset", ibd_size)
    IN  IF ~m.ok THEN [ok |-> FALSE, err |-> m.err, store |-> store]
        ELSE IF ~n.ok
        THEN [ok |-> FALSE, err |-> n.err, store |-> [store EXCEPT !.mzs = m.array]]
        ELSE [ok |-> TRUE, err |-> "",
              store |-> [store EXCEPT !.mzs = m.array, !.int = n.array]]

\* the region writes one pass issues
ChunkWrites(d, per_chunk_idx) ==
    IF d.is_continuous THEN <<<<"0", per_chunk_idx>>>>
    ELSE <<<<"labels/mzs/0", per_chunk_idx>>, <<"0", per_chunk_idx>>>>

-----------------------------------------------------------------------------
(* backend.py: convert, one action per step of the pipeline                *)

others == <<fe, pl, uu, cp, ts, ix>>

\* name defaults to the stem of zarr_path
ConvertName == IF inp.name = "" THEN inp.stem ELSE inp.name

\* mutant of ZarrPathExists: the pre-check is skipped
ZarrPathUnchecked == FALSE

\* zarr_path.exists()
ZarrPathExists == dest.kind # "absent"

\* lines 613-615: the existence pre-check, before any side effect
PreCheck ==
    /\ pc = "convert"
    /\ IF ZarrPathExists
       THEN /\ result' = "False"
            /\ pc' = "done"
       ELSE /\ pc' = "open_store"
            /\ UNCHANGED result
    /\ UNCHANGED <<inp, dest, callbacks, rmdirCalls, data, todo, flat_to_idx, ibd,
                   hdrOpens, writes, others>>

\* lines 617-628: the destination store and its root group are created and
\* only then is the removal callback registered; a failure here is outside
\* the try block and leaves the `with` block as an exception
CreateRoot ==
    /\ pc = "open_store"
    /\ IF inp.fault \in {"mkdir", "zgroup"}
       THEN /\ dest' = IF inp.fault = "zgroup" THEN PartialStore ELSE dest
            /\ result' = "raised"
            /\ pc' = "done"
            /\ UNCHANGED callbacks
       ELSE /\ dest' = EmptyStore
            /\ callbacks' = Append(callbacks, "rmdir")
            /\ pc' = "parse"
            /\ UNCHANGED result
    /\ UNCHANGED <<inp, rmdirCalls, data, todo, flat_to_idx, ibd, hdrOpens, writes,
                   others>>

\* line 631: mz_data = get_data_from_parser(imzml, ibd)
Parse ==
    /\ pc = "parse"
    /\ hdrOpens' = hdrOpens + 1
    /\ data' = get_data_from_parser(inp)
    /\ pc' = IF data'.ok THEN "construct" ELSE "except"
    /\ UNCHANGED <<inp, dest, callbacks, rmdirCalls, todo, flat_to_idx, ibd, writes,
                   result, others>>

\* lines 633-636 and 232-255: the convertor is constructed with the call's
\* options; max_size must be positive
Construct ==
    /\ pc = "construct"
    /\ pc' = IF inp.max_size <= 0 THEN "except" ELSE "add_base_metadata"
    /\ UNCHANGED <<inp, dest, callbacks, rmdirCalls, data, todo, flat_to_idx, ibd,
                   hdrOpens, writes, result, others>>

\* run(), first step
AddBaseMetadata ==
    /\ pc = "add_base_metadata"
    /\ dest' = add_base_metadata(dest, ConvertName, data)
    /\ pc' = "create_zarr_arrays"
    /\ UNCHANGED <<inp, callbacks, rmdirCalls, data, todo, flat_to_idx, ibd,
                   hdrOpens, writes, result, others>>

\* run(), second step
CreateZarrArrays ==
    /\ pc = "create_zarr_arrays"
    /\ LET r == create_zarr_arrays(dest, data, inp.chunks, inp.max_size,
                                   inp.fault = "zeros")
       IN  /\ dest' = r.store
           /\ pc' = IF r.ok THEN "read_binary_data" ELSE "except"
    /\ UNCHANGED <<inp, callbacks, rmdirCalls, data, todo, flat_to_idx, ibd,
                   hdrOpens, writes, result, others>>

\* open(self.data.source_ibd, mode="rb"): the handle of the payload, open
OpenIbd(handle) == [open |-> TRUE, opens |-> handle.opens + 1]

\* mutant of WithOpenExit: the handle is left open
WithOpenLeak(handle) == handle

\* leaving the `with open(...)` block, normally or through an exception,
\* closes the payload
WithOpenExit(handle) == [handle EXCEPT !.open = FALSE]

\* run(), third step, up to the loop over the chunks: the chunk index is
\* built, the payload is opened, and the m/z axis (continuous) or the lengths
\* (processed) are written
ReadBinaryData ==
    /\ pc = "read_binary_data"
    /\ LET sshape == SubSeq(dest.int.shape, 2, 4)
           schunks == SubSeq(dest.int.chunks, 2, 4)
           d == WithChunkIdx(data, sshape, schunks)
           mz == ReadMzAxis(dest.mzs, d, inp.ibd_size)
       IN  /\ data' = d
           /\ flat_to_idx' = FlatToIdx(data.spectra, sshape, schunks)
           /\ IF inp.fault = "open"
              THEN /\ pc' = "except"
                   /\ UNCHANGED <<dest, ibd, todo, writes>>
              ELSE IF d.is_continuous /\ ~mz.ok
              THEN /\ pc' = "except"
                   /\ ibd' = WithOpenExit(OpenIbd(ibd))
                   /\ UNCHANGED <<dest, todo, writes>>
              ELSE /\ dest' = IF d.is_continuous THEN [dest EXCEPT !.mzs = mz.array]
                              ELSE [dest EXCEPT !.lengths = ReadLengths(@, d.spectra)]
                   /\ writes' = Append(writes,
                          IF d.is_continuous THEN <<"labels/mzs/0", <<0, 0, 0>>>>
                          ELSE <<"labels/lengths/0", <<0, 0, 0>>>>)
                   /\ todo' = Unique(d.spectra, Len(d.spectra))
                   /\ ibd' = OpenIbd(ibd)
                   /\ pc' = "chunks"
    /\ UNCHANGED <<inp, callbacks, rmdirCalls, hdrOpens, result, others>>

\* one pass of `for chunk_idx in chunk_lst`; leaving the `with open` block,
\* after the last chunk or through an exception, closes the payload
ReadChunk ==
    /\ pc = "chunks"
    /\ todo # <<>>
    /\ LET r == ReadOneChunk(dest, data, Head(todo), flat_to_idx[Head(todo)],
                             inp.ibd_size)
       IN  /\ dest' = r.store
           /\ IF r.ok
              THEN /\ todo' = Tail(todo)
                   /\ writes' = writes \o ChunkWrites(data, flat_to_idx[Head(todo)])
                   /\ ibd' = IF Tail(todo) = <<>> THEN WithOpenExit(ibd) ELSE ibd
                   /\ pc' = IF Tail(todo) = <<>> THEN "commit" ELSE "chunks"
              ELSE /\ ibd' = WithOpenExit(ibd)
                   /\ pc' = "except"
                   /\ UNCHANGED <<todo, writes>>
    /\ UNCHANGED <<inp, callbacks, rmdirCalls, data, flat_to_idx, hdrOpens, result,
                   others>>

\* ExitStack.__exit__: every registered callback runs; dest_store.rmdir
\* removes the whole destination directory
RunCallbacks(store, cbs) == IF "rmdir" \in Range(cbs) THEN Absent ELSE store

\* lines 638-644: either except clause logs and returns False; leaving the
\* `with` block then runs the callbacks still registered on the stack
Except ==
    /\ pc = "except"
    /\ result' = "False"
    /\ dest' = RunCallbacks(dest, callbacks)
    /\ rmdirCalls' = rmdirCalls + Len(callbacks)
    /\ callbacks' = <<>>
    /\ pc' = "done"
    /\ UNCHANGED <<inp, data, todo, flat_to_idx, ibd, hdrOpens, writes, others>>

\* mutant of PopAll: pop_all() is not called, the callback stays registered
PopAllKeeps(cbs) == cbs

\* stack.pop_all(): the callbacks move to a new stack that is never closed
PopAll(cbs) == <<>>

\* lines 646-648: stack.pop_all() removes the callback, then True is
\* returned, which leaves the `with` block
Commit ==
    /\ pc = "commit"
    /\ result' = "True"
    /\ dest' = RunCallbacks(dest, PopAll(callbacks))
    /\ rmdirCalls' = rmdirCalls + Len(PopAll(callbacks))
    /\ callbacks' = <<>>
    /\ pc' = "done"
    /\ UNCHANGED <<inp, data, todo, flat_to_idx, ibd, hdrOpens, writes, others>>

NextConvert ==
    \/ PreCheck
    \/ CreateRoot
    \/ Parse
    \/ Construct
    \/ AddBaseMetadata
    \/ CreateZarrArrays
    \/ ReadBinaryData
    \/ ReadChunk
    \/ Except
    \/ Commit

-----------------------------------------------------------------------------
(* Initial states: the calls of convert the model explores                 *)

\* pixel grids (maxY, maxX) of the headers
Grids == {<<1, 1>>, <<1, 3>>, <<3, 1>>, <<2, 2>>}

\* what the environment may do to a call: nothing; the destination's parent
\* refuses the directory ("mkdir"); the directory is made but the root group
\* cannot be written ("zgroup"); the header cannot be parsed ("parser"); the
\* store fails while the arrays are created ("zeros"); the payload cannot be
\* opened ("open"); the payload ends before the last spectrum ("truncated")
Faults == {"none", "mkdir", "zgroup", "parser", "zeros", "open", "truncated"}

\* the sets of header pixels that carry a spectrum
RecordSets(grid) ==
    {S \in SUBSET HeaderPixels(grid[1], grid[2]) : Cardinality(S) <= MaxRecords}

\* the initial chunkings normalize_chunks may return for a grid
InitChunks(grid) ==
    {<<c, 1, cy, cx>> : c \in {1, MaxLen}, cy \in 1..grid[1], cx \in 1..grid[2]}

\* size of the payload holding every array the header refers to
FullIbdSize(hs, int_size) ==
    IF Len(hs) = 0 THEN UuidBytes
    ELSE hs[Len(hs)].int_offset + hs[Len(hs)].length * int_size

\* value of the variables that a run of convert does not start with
IdleFrontend == [pc |-> "idle", result |-> "none"]
IdlePlanner == [pc |-> "idle"]
IdleUuid == [pc |-> "idle"]
IdleCopy == [pc |-> "idle"]
IdleTemp == [pc |-> "idle"]
IdleIndex == [pc |-> "idle"]

\* the arguments and surroundings of a call convert(imzml, ibd, zarr_path,
\* chunks=..., max_size=...), for every input drawn from the given sets
ConvertArgs(existing, markerSets, faults, maxSizes, dtypeSizes, grids, orders) ==
    \E exists \in existing, markers \in markerSets, fault \in faults,
       max_size \in maxSizes, sizes \in dtypeSizes, grid \in grids :
      \E S \in RecordSets(grid), reversed \in orders :
        \E ls \in LengthSeqs(Cardinality(S), markers = {"continuous"}),
           chunks \in InitChunks(grid) :
          LET ps == PixelSeq(S, grid[2])
              hs == HeaderSpectra(IF reversed THEN Reverse(ps) ELSE ps, ls,
                                  markers = {"continuous"}, sizes[1], sizes[2])
          IN  /\ inp = [exists |-> exists, markers |-> markers, maxY |-> grid[1], maxX |-> grid[2],
                        spectra |-> hs, mz_size |-> sizes[1], int_size |-> sizes[2],
                        uuid |-> "uuid", name |-> "", stem |-> "dest",
                        chunks |-> chunks, max_size |-> max_size, fault |-> fault,
                        ibd_size |-> IF fault = "truncated" /\ Len(hs) > 0
                                     THEN hs[Len(hs)].int_offset
                                     ELSE FullIbdSize(hs, sizes[2])]
              /\ dest = IF exists THEN Existing ELSE Absent
              /\ callbacks = <<>>
              /\ rmdirCalls = 0
              /\ data = NoData
              /\ todo = <<>>
              /\ flat_to_idx = <<>>
              /\ ibd = [open |-> FALSE, opens |-> 0]
              /\ hdrOpens = 0
              /\ writes = <<>>
              /\ result = "none"

\* the same, with the call about to start and nothing else running
ConvertCalls(existing, markerSets, faults, maxSizes, dtypeSizes, grids, orders) ==
    /\ ConvertArgs(existing, markerSets, faults, maxSizes, dtypeSizes, grids, orders)
    /\ pc = "convert"
    /\ fe = IdleFrontend
    /\ pl = IdlePlanner
    /\ uu = IdleUuid
    /\ cp = IdleCopy
    /\ ts = IdleTemp
    /\ ix = IdleIndex

\* budgets: none (rejected by the constructor), one that forces the planner
\* to shrink or to give up, and the default
MaxSizes == {0, 40, BigBudget}

\* every way a call may go, on the smaller grids
Init ==
    ConvertCalls(BOOLEAN, SUBSET Markers, Faults, MaxSizes, {<<8, 4>>},
                 {<<1, 1>>, <<2, 2>>}, {FALSE})

Spec == Init /\ [][NextConvert]_vars

\* calls on a fresh destination with a well-formed header and a complete
\* payload, on every grid and in both file orders of the spectra; the small
\* budget is below the cost of some single spectra
InitTranscode ==
    ConvertCalls({FALSE}, {{"continuous"}, {"processed"}}, {"none"},
                 {16, BigBudget}, {<<8, 4>>}, Grids, BOOLEAN)

SpecTranscode == InitTranscode /\ [][NextConvert]_vars

-----------------------------------------------------------------------------
(* Properties of convert                                                   *)

\* the call has returned a boolean
Returned == pc = "done" /\ result \in {"True", "False"}

\* the header records, as the claims refer to them (1-based coordinates)
HeaderRecords == {inp.spectra[i] : i \in 1..Len(inp.spectra)}

\* the destination holds its metadata, the intensity array and the side
\* arrays, and every declared spectrum has reached them
Populated ==
    /\ dest.kind = "store"
    /\ dest.zgroup
    /\ Len(dest.multiscales) = 1
    /\ Len(dest.pims_msi) = 1
    /\ dest.pims_msi[1].binary_mode \in inp.markers
    /\ dest.labels = get_labels(inp.markers = {"continuous"})
    /\ dest.int.exists /\ dest.mzs.exists
    /\ (inp.markers = {"processed"}) = dest.lengths.exists
    /\ \A r \in HeaderRecords :
         /\ dest.int.values[<<0, 0, r.y - 1, r.x - 1>>] # FillValue
         /\ IF inp.markers = {"continuous"}
            THEN dest.mzs.values[<<0, 0, 0, 0>>] # FillValue
            ELSE /\ dest.mzs.values[<<0, 0, r.y - 1, r.x - 1>>] # FillValue
                 /\ dest.lengths.values[<<0, 0, r.y - 1, r.x - 1>>] = r.length

\* C1 as stated: for every call of convert that returns, the destination path
\* exists afterwards if and only if the result is True; a False result leaves
\* no destination, a True result leaves it fully populated.
C1_ExistsIffTrue ==
    Returned =>
        /\ (dest.kind # "absent") <=> (result = "True")
        /\ (result = "True" => Populated)

\* C1 amended: the same for every returning call whose destination path did
\* not exist when the call was made.
C1_FreshExistsIffTrue ==
    (Returned /\ ~inp.exists) =>
        /\ (dest.kind # "absent") <=> (result = "True")
        /\ (result = "False" => dest = Absent)
        /\ (result = "True" => Populated)

\* a call that failed after region writes had reached the destination
C1_Witness ==
    /\ Returned /\ ~inp.exists
    /\ result = "False"
    /\ writes # <<>>
    /\ dest = Absent

\* C2: no failure propagates past convert; whatever step after the pre-check
\* raises, convert returns False instead of raising.
C2_NeverRaises == result # "raised"

\* C3: if the destination path already exists, convert returns False and has
\* no side effect: the path's content is untouched, no removal callback is
\* registered or run, neither the header nor the payload is opened.
C3_ExistingUntouched ==
    inp.exists =>
        /\ dest = Existing
        /\ callbacks = <<>> /\ rmdirCalls = 0
        /\ hdrOpens = 0 /\ ibd.opens = 0
        /\ writes = <<>>
        /\ result \in {"none", "False"}
        /\ (pc = "done" => result = "False")

\* a call on an existing destination that has returned
C3_Witness == inp.exists /\ pc = "done" /\ result = "False"

\* C4: if the header declares both or neither layout markers, so that the
\* validation fails after the destination directory was created, convert
\* returns False and the destination path does not exist afterwards.
C4_InvalidModeLeavesNothing ==
    (pc = "done" /\ Cardinality(inp.markers) # 1 /\ hdrOpens > 0
        /\ inp.fault # "parser") =>
        /\ data = Raised("ValueError")
        /\ result = "False"
        /\ dest = Absent
        /\ rmdirCalls = 1

\* a header declaring both markers was refused after the directory was made
C4_Witness ==
    /\ pc = "done" /\ inp.markers = Markers /\ hdrOpens > 0
    /\ data = Raised("ValueError") /\ rmdirCalls = 1 /\ dest = Absent

-----------------------------------------------------------------------------
(* Properties of the transcoded arrays                                     *)

Succeeded == pc = "done" /\ result = "True"

\* 0-based pixels of the grid, and those no header record refers to
GridPixels == {<<y, x>> : y \in 0..(inp.maxY - 1), x \in 0..(inp.maxX - 1)}

MissingPixels == {p \in GridPixels : \A r \in HeaderRecords : <<r.y - 1, r.x - 1>> # p}

\* channels of the intensity array
Channels == 0..(dest.int.shape[1] - 1)

\* the spatial chunk coordinate (y, x) of a 0-based pixel in the intensity array
ChunkOf(p) == <<p[1] \div dest.int.chunks[3], p[2] \div dest.int.chunks[4]>>

\* the last chunk along the y or the x axis is partial
PartialLastChunk ==
    \E a \in 3..4 : /\ dest.int.chunks[a] < dest.int.shape[a]
                    /\ dest.int.shape[a] % dest.int.chunks[a] # 0

\* C7: after a successful Continuous conversion the m/z side array holds at
\* [c,0,0,0] the c-th element stored at the first record's mz_offset, and for
\* every record with 1-based header coordinates (x, y) and every channel c,
\* intensity[c,0,y-1,x-1] is the c-th element stored at the record's
\* intensity offset, whatever chunk shape was planned.
C7_ContinuousRoundTrip ==
    (Succeeded /\ inp.markers = {"continuous"}) =>
        /\ dest.mzs.shape = <<inp.spectra[1].length, 1, 1, 1>>
        /\ dest.int.shape = <<inp.spectra[1].length, 1, inp.maxY, inp.maxX>>
        /\ \A c \in Channels :
             dest.mzs.values[<<c, 0, 0, 0>>]
                = Payload(inp.spectra[1].mz_offset + c * inp.mz_size)
        /\ \A r \in HeaderRecords : \A c \in Channels :
             dest.int.values[<<c, 0, r.y - 1, r.x - 1>>]
                = Payload(r.int_offset + c * inp.int_size)

\* a successful Continuous conversion of two spectra of several channels, on
\* a grid whose last chunk is partial and holds one of them
C7_Witness ==
    /\ Succeeded /\ inp.markers = {"continuous"}
    /\ Len(inp.spectra) = 2 /\ inp.spectra[1].length > 1
    /\ PartialLastChunk
    /\ Len(writes) = 3
    /\ \E r \in HeaderRecords : r.x = inp.maxX /\ r.y = inp.maxY

\* C8: after a successful Processed conversion, for every pixel referenced by
\* a record of length L: lengths[0,0,y,x] = L, the first L entries of the m/z
\* and intensity arrays at the pixel are the record's payload values, and
\* every entry of both arrays at a channel >= lengths[0,0,y,x] is 0.
C8_ProcessedPadding ==
    (Succeeded /\ inp.markers = {"processed"}) =>
        \A r \in HeaderRecords :
            LET y == r.y - 1
                x == r.x - 1
            IN  /\ dest.lengths.values[<<0, 0, y, x>>] = r.length
                /\ \A c \in Channels :
                     IF c < r.length
                     THEN /\ dest.mzs.values[<<c, 0, y, x>>]
                               = Payload(r.mz_offset + c * inp.mz_size)
                          /\ dest.int.values[<<c, 0, y, x>>]
                               = Payload(r.int_offset + c * inp.int_size)
                     ELSE /\ dest.mzs.values[<<c, 0, y, x>>] = 0
                          /\ dest.int.values[<<c, 0, y, x>>] = 0

\* a successful Processed conversion in which a short and a longer spectrum
\* went through the same buffer, the longer one first
C8_Witness ==
    /\ Succeeded /\ inp.markers = {"processed"}
    /\ Len(inp.spectra) = 2
    /\ inp.spectra[1].length > inp.spectra[2].length
    /\ ChunkOf(<<inp.spectra[1].y - 1, inp.spectra[1].x - 1>>)
         = ChunkOf(<<inp.spectra[2].y - 1, inp.spectra[2].x - 1>>)

\* C9: after a successful conversion in either mode, every pixel referenced
\* by no record holds 0 at every channel of the intensity array and, in
\* Processed mode, of the m/z array and of the lengths array.
C9_MissingPixelsZero ==
    Succeeded =>
        \A p \in MissingPixels :
            /\ \A c \in Channels : dest.int.values[<<c, 0, p[1], p[2]>>] = 0
            /\ inp.markers = {"processed"} =>
                 /\ \A c \in Channels : dest.mzs.values[<<c, 0, p[1], p[2]>>] = 0
                 /\ dest.lengths.values[<<0, 0, p[1], p[2]>>] = 0

\* a successful conversion with a missing pixel in a chunk that holds a
\* record and another missing pixel in a chunk that holds none
C9_Witness ==
    /\ Succeeded
    /\ \E p, q \in MissingPixels :
         /\ \E r \in HeaderRecords : ChunkOf(<<r.y - 1, r.x - 1>>) = ChunkOf(p)
         /\ \A r \in HeaderRecords : ChunkOf(<<r.y - 1, r.x - 1>>) # ChunkOf(q)

-----------------------------------------------------------------------------
(* The planner on its own: intensity_chunks, one action per loop iteration *)

\* the variables of a conversion, when no conversion is running
ConvertIdle ==
    /\ inp = [exists |-> FALSE]
    /\ pc = "idle"
    /\ dest = Absent
    /\ callbacks = <<>>
    /\ rmdirCalls = 0
    /\ data = NoData
    /\ todo = <<>>
    /\ flat_to_idx = <<>>
    /\ ibd = [open |-> FALSE, opens |-> 0]
    /\ hdrOpens = 0
    /\ writes = <<>>
    /\ result = "none"

convertVars == <<inp, pc, dest, callbacks, rmdirCalls, data, todo, flat_to_idx, ibd,
                 hdrOpens, writes, result>>

\* budgets of the planner runs; several coincide with the cost of a chunk
PlanBudgets == {1, 8, 16, 17, 32, 48, 64, BigBudget}

\* (mz, intensity) element sizes of the planner runs
PlanDtypeSizes == {<<8, 4>>, <<4, 8>>, <<4, 4>>}

\* intensity shapes (channels, 1, height, width)
PlanShapes == {<<c, 1, y, x>> : c \in 1..MaxLen, y \in 1..MaxPlanDim, x \in 1..MaxPlanDim}

\* initial chunkings of a shape: what normalize_chunks returns for chunks=True
\* or for a caller's hint, which may exceed the shape
PlanInitChunks(shape) ==
    {<<c, z, y, x>> : c \in 1..shape[1], z \in 1..2,
                      y \in 1..(shape[3] + 1), x \in 1..(shape[4] + 1)}

InitPlan ==
    /\ ConvertIdle
    /\ fe = IdleFrontend
    /\ uu = IdleUuid
    /\ cp = IdleCopy
    /\ ts = IdleTemp
    /\ ix = IdleIndex
    /\ \E shape \in PlanShapes, sizes \in PlanDtypeSizes, is_continuous \in BOOLEAN,
          max_size \in PlanBudgets :
         \E init \in PlanInitChunks(shape) :
           pl = [pc |-> "start", shape |-> shape, init |-> init,
                 mz_size |-> sizes[1], int_size |-> sizes[2],
                 is_continuous |-> is_continuous, max_size |-> max_size,
                 item_size |-> 0, chunks |-> <<>>, last_idx |-> 1, halvings |-> 0]

\* lines 310-318: item_size, the normalized chunks, last_idx = 1
PlanStart ==
    /\ pl.pc = "start"
    /\ pl' = [pl EXCEPT !.pc = "loop",
                        !.item_size = PlanItemSize(pl.is_continuous, pl.int_size,
                                                   pl.mz_size),
                        !.chunks = pl.init,
                        !.last_idx = 1]
    /\ UNCHANGED <<convertVars, fe, uu, cp, ts, ix>>

\* lines 319-343: one iteration of `while True`; the loop is left by break
\* (the chunks are returned) or by the ValueError
PlanIterate ==
    /\ pl.pc = "loop"
    /\ LET nx == ShrinkIter(pl.shape, pl.item_size, pl.max_size,
                            [pc |-> "continue", chunks |-> pl.chunks,
                             last_idx |-> pl.last_idx])
       IN  pl' = [pl EXCEPT !.pc = CASE nx.pc = "break" -> "returned"
                                     [] nx.pc = "raise" -> "raised"
                                     [] OTHER -> "loop",
                            !.chunks = nx.chunks,
                            !.last_idx = nx.last_idx,
                            !.halvings = IF nx.pc = "continue" THEN @ + 1 ELSE @]
    /\ UNCHANGED <<convertVars, fe, uu, cp, ts, ix>>

NextPlan == PlanStart \/ PlanIterate

SpecPlan == InitPlan /\ [][NextPlan]_vars

\* C6: for every dataset, initial chunking and positive max_size,
\* intensity_chunks either returns a chunk shape whose cost
\* channels * chunk_z * chunk_y * chunk_x * item_size is strictly less than
\* max_size, or fails with the chunk-budget error; item_size is the intensity
\* element size in Continuous mode and the larger of the m/z and intensity
\* element sizes in Processed mode.
C6_ChunkBudget ==
    /\ pl.pc = "returned" =>
         pl.shape[1] * pl.chunks[2] * pl.chunks[3] * pl.chunks[4]
            * (IF pl.is_continuous THEN pl.int_size
               ELSE IF pl.mz_size > pl.int_size THEN pl.mz_size ELSE pl.int_size)
         < pl.max_size
    /\ pl.pc \in {"start", "loop", "returned", "raised"}

\* a plan returned for a processed file with wider m/z elements, after the
\* loop halved both spatial axes and the channel axis of the chunks
C6_Witness ==
    /\ pl.pc = "returned"
    /\ ~pl.is_continuous /\ pl.mz_size > pl.int_size
    /\ pl.chunks[1] < pl.init[1]
    /\ pl.chunks[3] < pl.init[3] /\ pl.chunks[4] < pl.init[4]

-----------------------------------------------------------------------------
(* utils/imzml/checker.py: check_uuid                                      *)
(* Text is a sequence of one-character strings, bytes are numbers 0..255.  *)

HexDigits == <<"0", "1", "2", "3", "4", "5", "6", "7", "8", "9",
               "a", "b", "c", "d", "e", "f">>

UpperLetters == <<"A", "B", "C", "D", "E", "F", "G">>
LowerLetters == <<"a", "b", "c", "d", "e", "f", "g">>

\* bytes.hex(): two lowercase hex digits per byte
HexOfByte(b) == <<HexDigits[(b \div 16) + 1], HexDigits[(b % 16) + 1]>>

RECURSIVE Hex(_)
Hex(bytes) == IF bytes = <<>> THEN <<>> ELSE HexOfByte(Head(bytes)) \o Hex(Tail(bytes))

\* file.read(n): the first n bytes, or all of them when the file is shorter
ReadBytes(bytes, n) == SubSeq(bytes, 1, Min(n, Len(bytes)))

\* str.lower() on one character
LowerChar(ch) ==
    IF \E i \in DOMAIN UpperLetters : UpperLetters[i] = ch
    THEN LowerLetters[CHOOSE i \in DOMAIN UpperLetters : UpperLetters[i] = ch]
    ELSE ch

UpperChar(ch) ==
    IF \E i \in DOMAIN LowerLetters : LowerLetters[i] = ch
    THEN UpperLetters[CHOOSE i \in DOMAIN LowerLetters : LowerLetters[i] = ch]
    ELSE ch

\* mutant of NormalizeUuid: the hyphens are removed but the case is kept
RemoveHyphensOnly(text) == SelectSeq(text, LAMBDA ch : ch # "-")

\* line 52: imzml_uuid.replace('-', '').lower()
NormalizeUuid(text) ==
    LET bare == SelectSeq(text, LAMBDA ch : ch # "-")
    IN  [i \in 1..Len(bare) |-> LowerChar(bare[i])]

\* lines 45-49: the optional curly braces; an opening brace without a closing
\* one is a ValueError, an empty value an IndexError
StripBraces(text) ==
    IF text = <<>> THEN Raised("IndexError")
    ELSE IF text[1] = "{"
    THEN IF text[Len(text)] # "}" THEN Raised("ValueError")
         ELSE [ok |-> TRUE, err |-> "", text |-> SubSeq(text, 2, Len(text) - 1)]
    ELSE [ok |-> TRUE, err |-> "", text |-> text]

\* lines 37-54, given the hex of the payload's UUID: the header is parsed,
\* the UUID element looked up and its value compared. Every exception is
\* caught by one of the except clauses of check_uuid, which return False.
\* header.kind: "missing" (no such file), "empty" (no XML element), "no_uuid"
\* (no cvParam IMS:1000080), "no_value" (the element has no value attribute)
\* or "value"
CompareUuid(header, ibd_uuid) ==
    IF header.kind = "missing" THEN Raised("OSError")
    ELSE IF header.kind = "empty" THEN Raised("StopIteration")
    ELSE IF header.kind = "no_uuid" THEN Raised("ValueError")
    ELSE IF header.kind = "no_value" THEN Raised("TypeError")
    ELSE LET stripped == StripBraces(header.value)
         IN  IF ~stripped.ok THEN stripped
             ELSE [ok |-> TRUE, err |-> "",
                   equal |-> NormalizeUuid(stripped.text) = ibd_uuid]

\* the token and the payload bytes of the UUID normalization example
ExampleToken ==
    <<"{", "0", "1", "2", "3", "4", "5", "6", "7", "-", "8", "9", "A",
      "B", "-", "c", "d", "e", "f", "-", "0", "1", "2", "3", "-", "4",
      "5", "6", "7", "8", "9", "a", "b", "c", "d", "e", "f", "}">>

ExampleBytes == <<1, 35, 69, 103, 137, 171, 205, 239, 1, 35, 69, 103, 137, 171, 205, 239>>

\* payloads: the example's UUID alone, followed by data, cut short, with one
\* byte changed, other UUIDs, and an empty file
UuidPayloads ==
    {ExampleBytes,
     ExampleBytes \o <<255, 0>>,
     SubSeq(ExampleBytes, 1, 15),
     [ExampleBytes EXCEPT ![16] = 238],
     [i \in 1..16 |-> 0],
     [i \in 1..16 |-> 171],
     <<171>>,
     <<>>}

\* the three letter cases of a hex text
Recase(text, how) ==
    [i \in 1..Len(text) |->
        CASE how = "lower" -> text[i]
          [] how = "upper" -> UpperChar(text[i])
          [] OTHER -> IF i % 2 = 0 THEN UpperChar(text[i]) ELSE text[i]]

\* hyphens of a UUID text: none, 8-4-4-4-12, or one at either end
Hyphenate(text, how) ==
    CASE how = "none" -> text
      [] how = "ends" -> <<"-">> \o text \o <<"-">>
      [] OTHER -> IF Len(text) < 32 THEN text
                  ELSE SubSeq(text, 1, 8) \o <<"-">> \o SubSeq(text, 9, 12) \o <<"-">>
                       \o SubSeq(text, 13, 16) \o <<"-">> \o SubSeq(text, 17, 20)
                       \o <<"-">> \o SubSeq(text, 21, Len(text))

\* braces around a UUID text: none, a pair, one side only, two pairs
Embrace(text, how) ==
    CASE how = "none" -> text
      [] how = "pair" -> <<"{">> \o text \o <<"}">>
      [] how = "open" -> <<"{">> \o text
      [] how = "close" -> text \o <<"}">>
      [] OTHER -> <<"{", "{">> \o text \o <<"}", "}">>

\* header values: the hex of every payload's first bytes (also with its last
\* digit dropped or replaced by a non-hex letter) in every case, hyphenation
\* and bracing, and the example token
UuidValues ==
    LET hexes == {Hex(ReadBytes(b, UuidBytes)) : b \in UuidPayloads}
        bases == hexes \cup {SubSeq(h, 1, Len(h) - 1) : h \in hexes \ {<<>>}}
                       \cup {[h EXCEPT ![Len(h)] = "g"] : h \in hexes \ {<<>>}}
    IN  {Embrace(Hyphenate(Recase(h, c), y), e) :
            h \in bases, c \in {"lower", "upper", "mixed"},
            y \in {"none", "ends", "groups"},
            e \in {"none", "pair", "open", "close", "two"}}
        \cup {ExampleToken}

UuidHeaders ==
    {[kind |-> k, value |-> <<>>] : k \in {"missing", "empty", "no_uuid", "no_value"}}
    \cup {[kind |-> "value", value |-> v] : v \in UuidValues}

UuidIbds ==
    {[kind |-> "missing", bytes |-> <<>>]}
    \cup {[kind |-> "file", bytes |-> b] : b \in UuidPayloads}

InitUuid ==
    /\ ConvertIdle
    /\ fe = IdleFrontend
    /\ pl = IdlePlanner
    /\ cp = IdleCopy
    /\ ts = IdleTemp
    /\ ix = IdleIndex
    /\ \E header \in UuidHeaders, payload \in UuidIbds :
         uu = [pc |-> "read_ibd", header |-> header, ibd |-> payload,
               ibd_uuid |-> <<>>, result |-> "none"]

\* mutant of Caught: only the three named except clauses are there
CaughtByName(err) == err \in {"StopIteration", "OSError", "ValueError"}

\* lines 58-69: the except clauses of check_uuid, the last one for any
\* Exception
Caught(err) ==
    \/ err \in {"StopIteration", "OSError", "ValueError"}
    \/ err \notin {"KeyboardInterrupt", "SystemExit", "GeneratorExit"}

\* what check_uuid hands back for an exception met in its try block
OnError(err) == IF Caught(err) THEN "False" ELSE "raised"

\* lines 33-35: the binary UUID as a lowercase hex; a missing payload is an
\* OSError, for which check_uuid returns False
CheckUuidReadIbd ==
    /\ uu.pc = "read_ibd"
    /\ uu' = IF uu.ibd.kind = "missing"
             THEN [uu EXCEPT !.pc = "done", !.result = OnError("OSError")]
             ELSE [uu EXCEPT !.pc = "compare",
                             !.ibd_uuid = Hex(ReadBytes(uu.ibd.bytes, UuidBytes))]
    /\ UNCHANGED <<convertVars, fe, pl, cp, ts, ix>>

\* lines 37-69: the comparison, or False from whichever except clause
CheckUuidCompare ==
    /\ uu.pc = "compare"
    /\ LET r == CompareUuid(uu.header, uu.ibd_uuid)
       IN  uu' = [uu EXCEPT !.pc = "done",
                            !.result = IF ~r.ok THEN OnError(r.err)
                                       ELSE IF r.equal THEN "True" ELSE "False"]
    /\ UNCHANGED <<convertVars, fe, pl, cp, ts, ix>>

NextUuid == CheckUuidReadIbd \/ CheckUuidCompare

SpecUuid == InitUuid /\ [][NextUuid]_vars

\* the header's UUID value as the pairing contract normalizes it: one
\* optional pair of enclosing braces stripped, hyphens removed, lower-cased
ContractUuid(value) ==
    LET inner == IF Len(value) >= 2 /\ Head(value) = "{" /\ value[Len(value)] = "}"
                 THEN SubSeq(value, 2, Len(value) - 1)
                 ELSE value
        bare == SelectSeq(inner, LAMBDA ch : ch # "-")
    IN  [i \in 1..Len(bare) |-> LowerChar(bare[i])]

\* the header has a UUID value that, normalized, is the lowercase hex of the
\* payload's first 16 bytes
ContractMatch ==
    /\ uu.header.kind = "value"
    /\ uu.ibd.kind = "file"
    /\ ContractUuid(uu.header.value) = Hex(ReadBytes(uu.ibd.bytes, UuidBytes))

\* C10 as stated: check_uuid returns True exactly when the header's UUID
\* value, after stripping one optional pair of enclosing braces, removing
\* hyphens and lower-casing, equals the lowercase hex rendering of the
\* payload's first 16 bytes.
C10_TrueIffNormalizedEqual ==
    uu.pc = "done" => ((uu.result = "True") <=> ContractMatch)

\* C10 amended: the same, for a UUID value that is not empty; an empty value
\* is refused whatever the payload. In particular the example token matches
\* a payload starting with the example bytes.
C10_TrueIffNonEmptyNormalizedEqual ==
    uu.pc = "done" =>
        /\ (uu.result = "True") <=> (uu.header.value # <<>> /\ ContractMatch)
        /\ (/\ uu.header.kind = "value" /\ uu.header.value = ExampleToken
            /\ uu.ibd.kind = "file"
            /\ ReadBytes(uu.ibd.bytes, UuidBytes) = ExampleBytes)
           => uu.result = "True"

\* the example token was checked against a payload that starts with the
\* example bytes and goes on with data, and matched
C10_Witness ==
    /\ uu.pc = "done" /\ uu.result = "True"
    /\ uu.header.value = ExampleToken
    /\ Len(uu.ibd.bytes) > UuidBytes

-----------------------------------------------------------------------------
(* utils/imzml/utils.py: get_imzml_pair, and convertor/frontend.py          *)
(* A path of the source directory is [stem, suffix].                       *)

Stems == {"a", "A", "b"}
Suffixes == {".imzML", ".IMZML", ".ibd", ".IBD", ".txt"}

DirFiles == [stem : Stems, suffix : Suffixes]

LowerStem(stem) == IF stem = "A" THEN "a" ELSE stem

LowerSuffix(suffix) ==
    CASE suffix = ".imzML" -> ".imzml"
      [] suffix = ".IMZML" -> ".imzml"
      [] suffix = ".IBD" -> ".ibd"
      [] OTHER -> suffix

\* str(f).lower()
LowerPath(f) == [stem |-> LowerStem(f.stem), suffix |-> LowerSuffix(f.suffix)]

\* no pair
None == <<>>

\* files_as_str.index(target_as_str): the first position holding it, 0 when
\* it holds none (the ValueError)
IndexOf(files, lowered) ==
    IF \E i \in 1..Len(files) : LowerPath(files[i]) = lowered
    THEN CHOOSE i \in 1..Len(files) :
            /\ LowerPath(files[i]) = lowered
            /\ \A j \in 1..(i - 1) : LowerPath(files[j]) # lowered
    ELSE 0

\* the body of `for imzml in imzml_files` for one header: the pair returned,
\* or None when the loop goes on
PairOf(imzml, files) ==
    LET target == [stem |-> imzml.stem, suffix |-> ".ibd"]
        idx == IndexOf(files, LowerPath(target))
    IN  IF target \in Range(files) THEN <<imzml, target>>
        ELSE IF idx = 0 THEN None
        ELSE IF imzml.stem = files[idx].stem THEN <<imzml, target>>
        ELSE None

RECURSIVE FirstPair(_, _)
FirstPair(imzml_files, files) ==
    IF imzml_files = <<>> THEN None
    ELSE IF PairOf(Head(imzml_files), files) # None
    THEN PairOf(Head(imzml_files), files)
    ELSE FirstPair(Tail(imzml_files), files)

\* get_imzml_pair(path): the listing holds the regular files of the directory
get_imzml_pair(dir) ==
    IF ~dir.is_dir THEN None
    ELSE FirstPair(SelectSeq(dir.files, LAMBDA f : LowerSuffix(f.suffix) = ".imzml"),
                   dir.files)

\* listings of at most MaxFiles distinct files, in any order
RECURSIVE Listings(_)
Listings(n) ==
    IF n = 0 THEN {<<>>}
    ELSE Listings(n - 1)
         \cup {Append(l, f) : l \in {k \in Listings(n - 1) : Len(k) = n - 1},
                               f \in DirFiles}

SourceDirs ==
    {[is_dir |-> FALSE, files |-> <<>>]}
    \cup {[is_dir |-> TRUE, files |-> l] :
            l \in {k \in Listings(MaxFiles) :
                     \A i, j \in 1..Len(k) : i # j => k[i] # k[j]}}

\* a front-end conversion about to start: a source directory, a destination
\* that is absent or not, and the dataset its header and payload hold
InitFrontend ==
    /\ ConvertArgs(BOOLEAN, {{"continuous"}}, {"none"}, {BigBudget},
                   {<<8, 4>>}, {<<1, 1>>}, {FALSE})
    /\ pc = "idle"
    /\ pl = IdlePlanner
    /\ uu = IdleUuid
    /\ cp = IdleCopy
    /\ ts = IdleTemp
    /\ ix = IdleIndex
    /\ \E dir \in SourceDirs :
         fe = [pc |-> "convert", dir |-> dir, pair |-> None, logged |-> FALSE,
               result |-> "none"]

\* frontend.py lines 33-38: the pair is looked up and, when there is none, an
\* error is logged; convert(*pair, dest_path, name=...) is then called in
\* either case, and unpacking None raises TypeError before the call is made.
\* A payload path that is not in the directory cannot be opened.
FrontendCall ==
    /\ fe.pc = "convert"
    /\ LET pair == get_imzml_pair(fe.dir)
       IN  IF pair = None
           THEN /\ fe' = [fe EXCEPT !.pc = "done", !.pair = pair, !.logged = TRUE,
                                    !.result = "raised"]
                /\ UNCHANGED <<inp, pc>>
           ELSE /\ fe' = [fe EXCEPT !.pc = "backend", !.pair = pair]
                /\ inp' = [inp EXCEPT !.fault = IF pair[2] \in Range(fe.dir.files)
                                                THEN @ ELSE "open"]
                /\ pc' = "convert"
    /\ UNCHANGED <<dest, callbacks, rmdirCalls, data, todo, flat_to_idx, ibd,
                   hdrOpens, writes, result, pl, uu, cp, ts, ix>>

\* the front end returns what the backend returned, or lets its exception out
FrontendReturn ==
    /\ fe.pc = "backend"
    /\ pc = "done"
    /\ fe' = [fe EXCEPT !.pc = "done", !.result = result]
    /\ UNCHANGED <<convertVars, pl, uu, cp, ts, ix>>

NextFrontend == FrontendCall \/ FrontendReturn \/ NextConvert

SpecFrontend == InitFrontend /\ [][NextFrontend]_vars

\* C5: when get_imzml_pair finds no header/payload pair (it returns None),
\* ImzMLToZarrConvertor.convert returns False without raising and without
\* creating the destination.
C5_NoPairReturnsFalse ==
    (fe.pc = "done" /\ get_imzml_pair(fe.dir) = None) =>
        /\ fe.result = "False"
        /\ dest = (IF inp.exists THEN Existing ELSE Absent)

-----------------------------------------------------------------------------
(* Properties of the header parser                                         *)

\* C11: for a header that can be parsed, get_data_from_parser fails with the
\* invalid-layout-mode ValueError if and only if the header declares both or
\* neither of the markers 'continuous' and 'processed'; when exactly one is
\* declared the returned dataset's is_continuous flag is True exactly when
\* that marker is 'continuous'.
C11_InvalidModeIffNotOneMarker ==
    (data # NoData /\ inp.fault # "parser") =>
        /\ (data = Raised("ValueError")) <=> (Cardinality(inp.markers) # 1)
        /\ data.ok => (data.is_continuous <=> (inp.markers = {"continuous"}))

\* a header declaring neither marker was refused, and the call went on to its
\* except clause
C11_Witness ==
    /\ inp.markers = {}
    /\ inp.fault = "none"
    /\ data = Raised("ValueError")
    /\ pc = "except"

-----------------------------------------------------------------------------
(* Order of the stages of a conversion                                     *)

\* C12: a conversion moves through planning, allocating (metadata, then the
\* empty arrays), transcoding and commit in that order: nothing but the root
\* group is in the destination when the chunk shape is about to be planned
\* (the first use of intensity_chunks, in create_zarr_arrays), True is
\* returned only after every chunk was transcoded, and a call that fails in
\* one of these stages leaves no destination.
C12_StagesInOrder ==
    /\ pc = "create_zarr_arrays" => dest = EmptyStore
    /\ result = "True" => (todo = <<>> /\ dest.int.exists /\ dest.mzs.exists)
    /\ (pc = "done" /\ result = "False" /\ ~inp.exists) => dest = Absent

-----------------------------------------------------------------------------
(* Properties of the planner's shrink loop                                 *)

\* C13: the shrink loop of intensity_chunks never splits the channel axis:
\* while the loop runs and in every returned plan the channel-axis chunk size
\* equals that of the initial chunking, only the spatial chunk sizes change.
C13_ChannelAxisNeverSplit ==
    pl.pc \in {"loop", "returned", "raised"} => pl.chunks[1] = pl.init[1]

\* the spatial axes (Python indices 1, 2, 3: depth, height, width) in cyclic
\* order, starting after the axis halved last (from depth when none was)
AxesAfter(prev) ==
    CASE prev = 1 -> <<2, 3, 1>>
      [] prev = 2 -> <<3, 1, 2>>
      [] prev = 3 -> <<1, 2, 3>>
      [] OTHER -> <<1, 2, 3>>

\* the first axis of that order whose chunk size is above 1 (0 when none is)
RoundRobinAxis(prev, chunks) ==
    LET order == AxesAfter(prev)
    IN  IF chunks[order[1] + 1] > 1 THEN order[1]
        ELSE IF chunks[order[2] + 1] > 1 THEN order[2]
        ELSE IF chunks[order[3] + 1] > 1 THEN order[3]
        ELSE 0

\* C14: every halving of the shrink loop applies to the next spatial axis in
\* the cyclic order depth, height, width after the axis halved last, skipping
\* the axes at chunk size 1, and replaces that axis' size c by ceil(c / 2),
\* leaving the other sizes alone.
C14_RoundRobinHalving ==
    [][(pl.pc = "loop" /\ pl'.pc = "loop" /\ pl'.halvings > pl.halvings) =>
          LET axis == RoundRobinAxis(IF pl.halvings = 0 THEN 0 ELSE pl.last_idx,
                                     pl.chunks)
          IN  /\ axis # 0
              /\ pl'.chunks = [pl.chunks EXCEPT ![axis + 1] = CeilDiv(@, 2)]]_vars

\* item size of a planner run, as the layout modes define it
PlanRunItemSize ==
    IF pl.is_continuous THEN pl.int_size
    ELSE IF pl.mz_size > pl.int_size THEN pl.mz_size ELSE pl.int_size

\* C15: planning fails with the chunk-budget error only when every spatial
\* chunk size has been driven to 1 and the cost is still not below the
\* budget, that is exactly when channels * item_size >= max_size; whenever a
\* single pixel's spectrum fits the budget the loop ends with a plan.
C15_FailsIffPixelExceedsBudget ==
    /\ pl.pc = "raised" =>
         /\ pl.chunks[2] = 1 /\ pl.chunks[3] = 1 /\ pl.chunks[4] = 1
         /\ pl.shape[1] * PlanRunItemSize >= pl.max_size
    /\ pl.pc = "returned" => pl.shape[1] * PlanRunItemSize < pl.max_size
    /\ pl.pc \in {"start", "loop", "returned", "raised"}

\* a run that failed after driving the height and the width of the chunks
\* from above 1 down to 1
C15_Witness ==
    /\ pl.pc = "raised"
    /\ pl.init[3] > 1 /\ pl.init[4] > 1
    /\ pl.halvings >= 2

\* C16: every chunk shape returned by intensity_chunks has the rank of the
\* intensity shape, and each of its dimensions is at least 1, no larger than
\* the same dimension of the initial chunking, and no larger than the same
\* dimension of the intensity shape.
C16_ChunksWithinInitAndShape ==
    pl.pc = "returned" =>
        /\ Len(pl.chunks) = Len(pl.shape)
        /\ \A i \in 1..Len(pl.chunks) :
             /\ pl.chunks[i] >= 1
             /\ pl.chunks[i] <= pl.init[i]
             /\ pl.chunks[i] <= pl.shape[i]

-----------------------------------------------------------------------------
(* utils/imzml/convertor.py and imzml/convertor.py: the convertors that     *)
(* fill a scratch store first and then copy it to the destination          *)

\* source.nbytes: the byte size of the uncompressed array
Nbytes(shape, item_size) == shape[1] * shape[2] * shape[3] * shape[4] * item_size

\* copy_array(source, destination): the whole source is loaded in memory and
\* written at once (destination[:] = source[:]), or the array is handed over
\* and loaded chunk by chunk (destination[:] = source)
copy_array(array_size) ==
    IF array_size <= DiskCopyThreshold THEN "materialize" ELSE "stream"

\* the re-chunk step written out in _read_continuous_imzml
InlineCopy(array_size) ==
    IF array_size <= DiskCopyThreshold THEN "materialize" ELSE "stream"

\* the scratch arrays a convertor copies, in the order of its calls, with the
\* element size of each
ScratchArrays(site, int_size, mz_size) ==
    IF site = "processed"
    THEN <<[array |-> "fast_intensities", item_size |-> int_size],
           [array |-> "fast_mzs", item_size |-> mz_size]>>
    ELSE <<[array |-> "fast_intensities", item_size |-> int_size]>>

\* the three places that copy scratch arrays: _ContinuousImzMLConvertor and
\* _ProcessedImzMLConvertor of utils/imzml/convertor.py (through copy_array),
\* and _read_continuous_imzml of imzml/convertor.py (written out)
CopySites == {"continuous", "processed", "inline"}

InitCopy ==
    /\ ConvertIdle
    /\ fe = IdleFrontend
    /\ pl = IdlePlanner
    /\ uu = IdleUuid
    /\ ts = IdleTemp
    /\ ix = IdleIndex
    /\ \E site \in CopySites, shape \in PlanShapes, sizes \in PlanDtypeSizes :
         cp = [pc |-> "re-chunk", site |-> site, shape |-> shape,
               todo |-> ScratchArrays(site, sizes[2], sizes[1]), copies |-> <<>>]

\* one call copy_array(fast_..., ...) of a read_binary_data method
CopyArray ==
    /\ cp.pc = "re-chunk"
    /\ cp.site \in {"continuous", "processed"}
    /\ LET a == Head(cp.todo)
           size == Nbytes(cp.shape, a.item_size)
       IN  cp' = [cp EXCEPT !.todo = Tail(@),
                            !.copies = Append(@, [array |-> a.array, nbytes |-> size,
                                                   how |-> copy_array(size)]),
                            !.pc = IF Tail(cp.todo) = <<>> THEN "done" ELSE @]
    /\ UNCHANGED <<convertVars, fe, pl, uu, ts, ix>>

\* imzml/convertor.py lines 81-90
RechunkInline ==
    /\ cp.pc = "re-chunk"
    /\ cp.site = "inline"
    /\ LET a == Head(cp.todo)
           size == Nbytes(cp.shape, a.item_size)
       IN  cp' = [cp EXCEPT !.todo = Tail(@),
                            !.copies = Append(@, [array |-> a.array, nbytes |-> size,
                                                   how |-> InlineCopy(size)]),
                            !.pc = "done"]
    /\ UNCHANGED <<convertVars, fe, pl, uu, ts, ix>>

NextCopy == CopyArray \/ RechunkInline

SpecCopy == InitCopy /\ [][NextCopy]_vars

\* C17: every scratch-to-destination copy, in both layout modes, materializes
\* the whole source in memory when the source's byte size is below the
\* disk-copy threshold, and streams it when the byte size is at or above the
\* threshold (exactly equal included).
C17_StreamAtOrAboveThreshold ==
    cp.pc \in {"re-chunk", "done"} =>
        \A i \in 1..Len(cp.copies) :
            /\ cp.copies[i].nbytes < DiskCopyThreshold => cp.copies[i].how = "materialize"
            /\ cp.copies[i].nbytes >= DiskCopyThreshold => cp.copies[i].how = "stream"

-----------------------------------------------------------------------------
(* Properties of the chunk index                                           *)

\* the chunk index has been built: add_chunk_idx has returned
Indexed == data.ok /\ data.has_chunk_idx /\ dest.kind = "store" /\ dest.int.exists

\* (z // cz, y // cy, x // cx) of a row of the spectra table, from the chunk
\* shape of the intensity array
ChunkCoordinate(r) ==
    <<r.z \div dest.int.chunks[2], r.y \div dest.int.chunks[3],
      r.x \div dest.int.chunks[4]>>

\* number of chunks along the depth and the height of the intensity array
DepthChunks == (dest.int.shape[2] + dest.int.chunks[2] - 1) \div dest.int.chunks[2]
HeightChunks == (dest.int.shape[3] + dest.int.chunks[3] - 1) \div dest.int.chunks[3]

\* C18: for records inside the grid, add_chunk_idx gives each record the flat
\* id cz + cy * nz + cx * nz * ny of its chunk coordinate (cz, cy, cx) =
\* (z // chunk_z, y // chunk_y, x // chunk_x), so that z varies fastest; the
\* returned mapping sends each record's flat id back to that record's chunk
\* coordinate, and two records have the same flat id if and only if they have
\* the same chunk coordinate.
C18_ChunkIdxRoundTrip ==
    Indexed =>
        /\ \A i \in 1..Len(data.spectra) :
             LET r == data.spectra[i]
                 c == ChunkCoordinate(r)
             IN  /\ r.chunk_idx = c[1] + c[2] * DepthChunks
                                  + c[3] * DepthChunks * HeightChunks
                 /\ r.chunk_idx \in DOMAIN flat_to_idx
                 /\ flat_to_idx[r.chunk_idx] = c
        /\ \A i, j \in 1..Len(data.spectra) :
             (data.spectra[i].chunk_idx = data.spectra[j].chunk_idx)
                <=> (ChunkCoordinate(data.spectra[i]) = ChunkCoordinate(data.spectra[j]))

\* two records indexed into chunks that differ along both the height and the
\* width of a grid cut in four chunks
C18_Witness ==
    /\ Indexed
    /\ pc = "chunks"
    /\ HeightChunks = 2
    /\ \E i, j \in 1..Len(data.spectra) :
         /\ ChunkCoordinate(data.spectra[i])[2] # ChunkCoordinate(data.spectra[j])[2]
         /\ ChunkCoordinate(data.spectra[i])[3] # ChunkCoordinate(data.spectra[j])[3]

-----------------------------------------------------------------------------
(* Properties of the region writes                                         *)

\* number of region writes issued so far to a chunk coordinate of an array
WritesTo(array, coordinate) ==
    Cardinality({i \in 1..Len(writes) : writes[i] = <<array, coordinate>>})

\* the arrays filled chunk by chunk, and the side array written whole
ChunkedArrays == IF data.is_continuous THEN {"0"} ELSE {"0", "labels/mzs/0"}
WholeArray == IF data.is_continuous THEN "labels/mzs/0" ELSE "labels/lengths/0"

WidthChunks == (dest.int.shape[4] + dest.int.chunks[4] - 1) \div dest.int.chunks[4]

ChunkCoordinates ==
    {<<z, y, x>> : z \in 0..(DepthChunks - 1), y \in 0..(HeightChunks - 1),
                   x \in 0..(WidthChunks - 1)}

\* the rows of the spectra table that fall in a chunk coordinate
RecordsIn(coordinate) ==
    {i \in 1..Len(data.spectra) : ChunkCoordinate(data.spectra[i]) = coordinate}

\* the destination array holds the whole spectrum of a row
Holds(array, r) ==
    \A c \in 0..(r.length - 1) :
        IF array = "0"
        THEN dest.int.values[<<c, r.z, r.y, r.x>>] = Payload(r.int_offset + c * data.int_size)
        ELSE dest.mzs.values[<<c, r.z, r.y, r.x>>] = Payload(r.mz_offset + c * data.mz_size)

\* C19: during transcoding each array filled chunk by chunk receives at most
\* one region write per chunk coordinate, only for coordinates that contain a
\* record, and once a coordinate has received its write every record of its
\* group is in the array (all were placed in the buffer before the write);
\* when transcoding is over every coordinate that contains a record has
\* received exactly one write and the others none. The side array written
\* whole receives one write.
C19_OneWritePerChunk ==
    (Indexed /\ pc \in {"chunks", "commit", "done"}) =>
        /\ \A a \in ChunkedArrays : \A k \in ChunkCoordinates :
             /\ WritesTo(a, k) <= 1
             /\ RecordsIn(k) = {} => WritesTo(a, k) = 0
             /\ WritesTo(a, k) = 1 => \A i \in RecordsIn(k) : Holds(a, data.spectra[i])
             /\ pc \in {"commit", "done"} => (RecordsIn(k) # {} => WritesTo(a, k) = 1)
        /\ WritesTo(WholeArray, <<0, 0, 0>>) = 1
        /\ \A i \in 1..Len(writes) :
             \/ writes[i] = <<WholeArray, <<0, 0, 0>>>>
             \/ writes[i][1] \in ChunkedArrays /\ writes[i][2] \in ChunkCoordinates

\* a processed conversion at the end of its loop: a chunk holding two records
\* has received its one write per array, after both records were placed, and
\* a chunk without any record has received none
C19_Witness ==
    /\ Indexed /\ pc = "commit" /\ ~data.is_continuous
    /\ \E k \in ChunkCoordinates :
         /\ Cardinality(RecordsIn(k)) = 2
         /\ WritesTo("0", k) = 1 /\ WritesTo("labels/mzs/0", k) = 1
    /\ \E k \in ChunkCoordinates : RecordsIn(k) = {} /\ WritesTo("0", k) = 0
    /\ Len(writes) = 3

-----------------------------------------------------------------------------
(* Properties of the intensity shape                                       *)

\* the lengths the header declares
HeaderLengths == {inp.spectra[i].length : i \in 1..Len(inp.spectra)}

\* C20: the channel count of the intensity shape is the first record's length
\* in Continuous mode and the maximum length over all records in Processed
\* mode; every record's length is at most the channel count and at most the
\* channel axis of the buffer of the record's chunk; the spatial part of the
\* shape is (1, height, width).
C20_ChannelCount ==
    (pc \in {"read_binary_data", "chunks", "commit"} /\ dest.int.exists) =>
        /\ inp.markers = {"continuous"} => dest.int.shape[1] = inp.spectra[1].length
        /\ inp.markers = {"processed"} =>
             /\ dest.int.shape[1] \in HeaderLengths
             /\ \A l \in HeaderLengths : l <= dest.int.shape[1]
        /\ SubSeq(dest.int.shape, 2, 4) = <<1, inp.maxY, inp.maxX>>
        /\ \A i \in 1..Len(data.spectra) :
             /\ data.spectra[i].length <= dest.int.shape[1]
             /\ data.spectra[i].length
                   <= BufferShape(dest.int, ChunkCoordinate(data.spectra[i]))[1]

\* a processed file whose first record is shorter than a later one, with the
\* channel axis of the chunks split by the caller's hint
C20_Witness ==
    /\ pc = "chunks" /\ dest.int.exists
    /\ inp.markers = {"processed"}
    /\ Len(inp.spectra) = 2
    /\ inp.spectra[1].length < inp.spectra[2].length
    /\ dest.int.shape[1] = inp.spectra[2].length
    /\ dest.int.chunks[1] < dest.int.shape[1]

-----------------------------------------------------------------------------
(* Properties of the payload file handle                                   *)

\* C21: the payload file is opened at most once per conversion, never before
\* the transcoding stage (read_binary_data) and so never by
\* get_data_from_parser, which opens the header only; a conversion that
\* transcodes every chunk has opened it exactly once; and the payload is
\* closed whenever convert has returned, with True or with False.
C21_PayloadOpenedOnceAndClosed ==
    /\ ibd.opens <= 1
    /\ pc \in {"convert", "open_store", "parse", "construct", "add_base_metadata",
               "create_zarr_arrays", "read_binary_data"} =>
         (ibd.opens = 0 /\ ~ibd.open)
    /\ ibd.open => pc = "chunks"
    /\ pc \in {"chunks", "commit"} => ibd.opens = 1
    /\ result = "True" => ibd.opens = 1
    /\ pc = "done" => ~ibd.open
    /\ hdrOpens <= 1

\* a conversion that failed in the middle of the chunk loop, on a truncated
\* payload, and has returned False with the payload closed
C21_Witness ==
    /\ pc = "done" /\ result = "False"
    /\ inp.fault = "truncated"
    /\ ibd.opens = 1 /\ ~ibd.open
    /\ Len(writes) >= 1

-----------------------------------------------------------------------------
(* utils/temp_store.py: contexts of temporary stores                       *)
(* A store is named by the rank of its construction, 1, 2, ...             *)

\* the entry points, and the count each hands to get_temp_stores
TempApis == {"multi_temp_stores", "single_temp_store", "temp_store_factory"}

TempCounts(api) == IF api = "single_temp_store" THEN {1} ELSE (-1)..MaxStores

\* what the `with` statement binds: the tuple, or its first store
Yielded(api, stores) == IF api = "single_temp_store" THEN <<stores[1]>> ELSE stores

\* mutant of RmdirAll: only the first store of the tuple is removed
RmdirFirst(stores, removed) ==
    removed \cup (IF stores = <<>> THEN {} ELSE {stores[1]})

\* the finally clause: store.rmdir() for every store of `stores`
RmdirAll(stores, removed) == removed \cup Range(stores)

\* a context about to be entered: the count asked, the construction that
\* fails if any (failAt, 0 for none), and whether the body raises
InitTemp ==
    /\ ConvertIdle
    /\ fe = IdleFrontend
    /\ pl = IdlePlanner
    /\ uu = IdleUuid
    /\ cp = IdleCopy
    /\ ix = IdleIndex
    /\ \E api \in TempApis, bodyRaises \in BOOLEAN :
         \E count \in TempCounts(api) :
           \E failAt \in 0..(IF count > 0 THEN count ELSE 0) :
             ts = [pc |-> "enter", api |-> api, count |-> count, failAt |-> failAt,
                   bodyRaises |-> bodyRaises, created |-> <<>>, stores |-> <<>>,
                   yielded |-> <<>>, removed |-> {}, pending |-> "none",
                   outcome |-> "none"]

\* lines 82-84: stores = (), then assert count > 0
TempAssert ==
    /\ ts.pc = "enter"
    /\ ts' = IF ts.count > 0
             THEN [ts EXCEPT !.pc = "construct"]
             ELSE [ts EXCEPT !.pc = "finally", !.pending = "AssertionError"]
    /\ UNCHANGED <<convertVars, fe, pl, uu, cp, ix>>

\* line 85, one zarr.TempStore(...) of the generator handed to tuple(): the
\* name `stores` is bound, and the stores are yielded (line 86), only once
\* every construction has succeeded
TempConstruct ==
    /\ ts.pc = "construct"
    /\ LET k == Len(ts.created) + 1
           made == Append(ts.created, k)
       IN  ts' = IF ts.failAt = k
                 THEN [ts EXCEPT !.pc = "finally", !.pending = "ConstructError"]
                 ELSE IF k = ts.count
                 THEN [ts EXCEPT !.pc = "body", !.created = made, !.stores = made,
                                 !.yielded = Yielded(ts.api, made)]
                 ELSE [ts EXCEPT !.created = made]
    /\ UNCHANGED <<convertVars, fe, pl, uu, cp, ix>>

\* the body of the `with` statement ends, normally or by raising; an
\* exception is thrown back into the generator at its yield
TempBody ==
    /\ ts.pc = "body"
    /\ ts' = [ts EXCEPT !.pc = "finally",
                        !.pending = IF ts.bodyRaises THEN "BodyError" ELSE "none"]
    /\ UNCHANGED <<convertVars, fe, pl, uu, cp, ix>>

\* lines 87-90: the finally clause, after which a pending exception goes on
TempFinally ==
    /\ ts.pc = "finally"
    /\ ts' = [ts EXCEPT !.pc = "exited",
                        !.removed = RmdirAll(ts.stores, ts.removed),
                        !.outcome = IF ts.pending = "none" THEN "normal"
                                    ELSE ts.pending]
    /\ UNCHANGED <<convertVars, fe, pl, uu, cp, ix>>

NextTemp == TempAssert \/ TempConstruct \/ TempBody \/ TempFinally

SpecTemp == InitTemp /\ [][NextTemp]_vars

\* C22: a context entered with count > 0 that yields, yields exactly count
\* stores (single_temp_store yields one store), and when it has exited,
\* normally or through an exception of its body, rmdir has been called on
\* every yielded store; with count <= 0 it fails by assertion without
\* constructing any store.
C22_YieldedStoresRemoved ==
    /\ ts.pc \in {"body", "finally", "exited"} /\ ts.yielded # <<>> =>
         /\ ts.count > 0
         /\ Len(ts.yielded) = (IF ts.api = "single_temp_store" THEN 1 ELSE ts.count)
         /\ \A i, j \in 1..Len(ts.yielded) : i # j => ts.yielded[i] # ts.yielded[j]
    /\ ts.pc = "exited" =>
         /\ Range(ts.yielded) \subseteq ts.removed
         /\ ts.count <= 0 => (ts.outcome = "AssertionError" /\ ts.created = <<>>)
         /\ (ts.count > 0 /\ ts.failAt = 0) =>
               (ts.yielded # <<>>
                /\ ts.outcome = (IF ts.bodyRaises THEN "BodyError" ELSE "normal"))

\* a context of several stores left through an exception of its body
C22_Witness ==
    /\ ts.pc = "exited"
    /\ ts.api = "multi_temp_stores"
    /\ ts.count = 2
    /\ ts.outcome = "BodyError"
    /\ ts.removed = {1, 2}

\* C25: no temporary store outlives its context: when the context has
\* exited, whatever the path (a failed construction included), rmdir has been
\* called on every store that was constructed.
C25_NoStoreOutlivesContext ==
    ts.pc = "exited" => Range(ts.created) \subseteq ts.removed


(***************************************************************************)
(* imzml/checker.py: the legacy check_uuid, which scans the header's text  *)
(* line by line instead of parsing it                                      *)

\* the header line that carries the UUID element, from the value attribute
\* on: the token, the closing quote and the end of the element
LegacyLineTail(value) == value \o <<"\"", "/", ">">>

\* line 40: re.findall(r'value="{?(.*)}?"', line), on the text that follows
\* value=" . The optional opening brace is consumed when it is there, the
\* greedy group runs to the last quote of the line, and the optional closing
\* brace is left with nothing to match: a closing brace stays in the group.
LegacyFindValue(tail) ==
    LET quotes == {i \in DOMAIN tail : tail[i] = "\""}
        last == CHOOSE i \in quotes : \A j \in quotes : j <= i
        first == IF tail # <<>> /\ tail[1] = "{" /\ last > 1 THEN 2 ELSE 1
    IN  IF quotes = {} THEN <<>> ELSE <<SubSeq(tail, first, last - 1)>>

\* lines 34-47: the loop over the lines and the comparison. Without a line
\* that names the accession, imzml_uuid is unbound at line 47 (NameError);
\* a line without a value attribute gives no match and False at line 42.
LegacyCompareUuid(header, ibd_uuid) ==
    IF header.kind = "missing" THEN Raised("OSError")
    ELSE IF header.kind \in {"empty", "no_uuid"} THEN Raised("NameError")
    ELSE LET imzml_uuid_lst == IF header.kind = "no_value" THEN <<>>
                               ELSE LegacyFindValue(LegacyLineTail(header.value))
         IN  IF Len(imzml_uuid_lst) # 1
             THEN [ok |-> TRUE, err |-> "", equal |-> FALSE]
             ELSE [ok |-> TRUE, err |-> "",
                   equal |-> RemoveHyphensOnly(imzml_uuid_lst[1]) = ibd_uuid]

InitUuidLegacy ==
    /\ ConvertIdle
    /\ fe = IdleFrontend
    /\ pl = IdlePlanner
    /\ cp = IdleCopy
    /\ ts = IdleTemp
    /\ ix = IdleIndex
    /\ \E header \in UuidHeaders, payload \in UuidIbds :
         uu = [pc |-> "legacy_read_ibd", header |-> header, ibd |-> payload,
               ibd_uuid |-> <<>>, result |-> "none"]

\* lines 30-31: the binary UUID as a lowercase hex; a missing payload is an
\* exception, for which line 50 returns False
LegacyReadIbd ==
    /\ uu.pc = "legacy_read_ibd"
    /\ uu' = IF uu.ibd.kind = "missing"
             THEN [uu EXCEPT !.pc = "legacy_done", !.result = "False"]
             ELSE [uu EXCEPT !.pc = "legacy_compare",
                             !.ibd_uuid = Hex(ReadBytes(uu.ibd.bytes, UuidBytes))]
    /\ UNCHANGED <<convertVars, fe, pl, cp, ts, ix>>

\* lines 34-50
LegacyCompare ==
    /\ uu.pc = "legacy_compare"
    /\ LET r == LegacyCompareUuid(uu.header, uu.ibd_uuid)
       IN  uu' = [uu EXCEPT !.pc = "legacy_done",
                            !.result = IF r.ok /\ r.equal THEN "True" ELSE "False"]
    /\ UNCHANGED <<convertVars, fe, pl, cp, ts, ix>>

NextUuidLegacy == LegacyReadIbd \/ LegacyCompare

SpecUuidLegacy == InitUuidLegacy /\ [][NextUuidLegacy]_vars

\* the header token is wrapped in one pair of braces
BraceWrapped(value) ==
    Len(value) >= 2 /\ Head(value) = "{" /\ value[Len(value)] = "}"

\* C23: the legacy check_uuid returns True for a brace-wrapped header token,
\* hyphenated and in any letter case, whenever the token's hex digits equal,
\* case-insensitively, the hex rendering of the payload's first 16 bytes
\* (the payload holds at least 16 bytes).
C23_LegacyTrueWhenNormalizedEqual ==
    (/\ uu.pc = "legacy_done"
     /\ ContractMatch
     /\ BraceWrapped(uu.header.value)
     /\ Len(uu.ibd.bytes) >= UuidBytes)
    => uu.result = "True"

(***************************************************************************)
(* C24: the pair returned by get_imzml_pair                                *)

\* C24: whenever get_imzml_pair returns a pair, both returned paths are in
\* the directory's listing: the header has an .imzML suffix in any letter
\* case and the payload is the listed file with the header's exact stem and
\* an .ibd suffix in any letter case; without a directory there is no pair.
C24_PairIsListed ==
    fe.pc \in {"backend", "done"} =>
        /\ ~fe.dir.is_dir => fe.pair = None
        /\ fe.pair # None =>
            /\ fe.pair[1] \in Range(fe.dir.files)
            /\ LowerSuffix(fe.pair[1].suffix) = ".imzml"
            /\ fe.pair[2] \in Range(fe.dir.files)
            /\ fe.pair[2].stem = fe.pair[1].stem
            /\ LowerSuffix(fe.pair[2].suffix) = ".ibd"

-----------------------------------------------------------------------------
(* Properties of the buffers of read_chunk_into                            *)

\* bytes of the buffer np.zeros allocates for a chunk of an array: the whole
\* channel axis times the clipped chunk, in the array's dtype
BufferBytes(array, chunk_idx) ==
    LET shape == BufferShape(array, chunk_idx)
    IN  shape[1] * shape[2] * shape[3] * shape[4] * array.size

\* the chunk is cut short by the edge of the array
Clipped(array, chunk_idx) ==
    \E a \in 1..3 : BufferShape(array, chunk_idx)[a + 1] < array.chunks[a + 1]

\* C26: every buffer read_chunk_into allocates during a conversion, for the
\* intensity array in both modes and for the m/z array of a processed file,
\* for full and for clipped chunks, has a byte size strictly less than
\* max_size. The buffers are those of the chunk coordinates of flat_to_idx.
C26_BufferBelowBudget ==
    (Indexed /\ pc \in {"chunks", "commit", "except"}) =>
        \A f \in DOMAIN flat_to_idx :
            /\ BufferBytes(dest.int, flat_to_idx[f]) < inp.max_size
            /\ ~data.is_continuous =>
                  BufferBytes(dest.mzs, flat_to_idx[f]) < inp.max_size

\* a continuous file was transcoded under the small budget with a full chunk
\* of two pixels and a clipped trailing chunk
C26_Witness ==
    /\ pc = "commit"
    /\ Indexed
    /\ inp.max_size < BigBudget
    /\ data.is_continuous
    /\ \E f, g \in DOMAIN flat_to_idx :
         /\ Clipped(dest.int, flat_to_idx[f])
         /\ ~Clipped(dest.int, flat_to_idx[g])
         /\ BufferBytes(dest.int, flat_to_idx[g]) = 2 * data.int_size

\* the index a row is given inside the buffer of a chunk: lines 216-221
LocalIdx(array, chunk_idx, row) ==
    LET low == LowIdx(array, chunk_idx)
    IN  <<row.z - low[1], row.y - low[2], row.x - low[3]>>

\* the local index lies inside the clipped buffer on every axis
InsideBuffer(array, chunk_idx, row) ==
    \A a \in 1..3 :
        /\ 0 <= LocalIdx(array, chunk_idx, row)[a]
        /\ LocalIdx(array, chunk_idx, row)[a] < BufferShape(array, chunk_idx)[a + 1]

\* the record's coordinates lie inside the grid
InsideGrid(row) ==
    /\ 0 <= row.z /\ row.z < dest.int.shape[2]
    /\ 0 <= row.y /\ row.y < dest.int.shape[3]
    /\ 0 <= row.x /\ row.x < dest.int.shape[4]

\* C27: every record handed to read_chunk_into during a conversion, that is
\* every row of the group of a chunk id together with the chunk coordinate
\* flat_to_idx gives for that id, has its local index (z - low_z, y - low_y,
\* x - low_x) inside the clipped buffer on every axis, for the intensity array
\* and for the m/z array of a processed file, when its coordinates lie inside
\* the grid.
C27_LocalIndexInsideBuffer ==
    (Indexed /\ pc \in {"chunks", "commit", "except"}) =>
        \A f \in DOMAIN flat_to_idx :
            \A k \in 1..Len(RowsOfChunk(data.spectra, f)) :
                LET row == RowsOfChunk(data.spectra, f)[k]
                IN  InsideGrid(row) =>
                        /\ InsideBuffer(dest.int, flat_to_idx[f], row)
                        /\ ~data.is_continuous =>
                              InsideBuffer(dest.mzs, flat_to_idx[f], row)

\* a conversion went through with a record at a local index other than the
\* origin of its chunk, and a record in a clipped chunk that does not start
\* at the origin of the grid
C27_Witness ==
    /\ pc = "commit"
    /\ Indexed
    /\ \E f, g \in DOMAIN flat_to_idx :
         /\ \E k \in 1..Len(RowsOfChunk(data.spectra, f)) :
              /\ InsideGrid(RowsOfChunk(data.spectra, f)[k])
              /\ LocalIdx(dest.int, flat_to_idx[f], RowsOfChunk(data.spectra, f)[k])
                    # <<0, 0, 0>>
         /\ Clipped(dest.int, flat_to_idx[g])
         /\ LowIdx(dest.int, flat_to_idx[g]) # <<0, 0, 0>>
         /\ RowsOfChunk(data.spectra, g) # <<>>

-----------------------------------------------------------------------------
(* Termination of the shrink loop                                          *)

\* the `while True` loop keeps running until it is left: its iteration is
\* taken whenever it is enabled
SpecPlanFair == SpecPlan /\ WF_vars(PlanIterate) /\ WF_vars(PlanStart)

\* the step halved exactly one chunk size that was above 1, down to a smaller
\* size of at least 1
DecreasesOneChunk ==
    \E a \in 1..4 :
        /\ pl.chunks[a] > 1
        /\ pl'.chunks[a] < pl.chunks[a]
        /\ pl'.chunks[a] >= 1
        /\ \A b \in (1..4) \ {a} : pl'.chunks[b] = pl.chunks[b]

\* C28: the shrink loop of intensity_chunks terminates for every intensity
\* shape, initial chunking, item size and budget: every iteration either
\* exits with a plan, strictly decreases one chunk size that is greater than
\* 1, or raises the chunk-budget error; and every run ends returned or raised.
C28_ShrinkLoopTerminates ==
    /\ [][pl.pc = "loop" =>
            \/ pl'.pc = "returned" /\ pl'.chunks = pl.chunks
            \/ pl'.pc = "raised" /\ pl'.chunks = pl.chunks
            \/ pl'.pc = "loop" /\ DecreasesOneChunk]_vars
    /\ <>(pl.pc \in {"returned", "raised"})

\* a run that ended after four halvings, the last one on the channel axis
C28_Witness ==
    /\ pl.pc \in {"returned", "raised"}
    /\ pl.halvings = 4
    /\ pl.last_idx = 0

-----------------------------------------------------------------------------
(* utils/imzml/checker.py: ImzMLChecker.match                              *)

\* directories of fewer than MaxFiles files
MatchDirs == {dir \in SourceDirs : Len(dir.files) < MaxFiles}

\* what the header of a matched pair may hold: no file that can be read, no
\* XML element, no UUID element, no value, an empty value, the example token,
\* and the example's hex in every bracing
MatchHeaders ==
    {[kind |-> k, value |-> <<>>] : k \in {"missing", "empty", "no_uuid", "no_value"}}
    \cup {[kind |-> "value", value |-> v] :
            v \in {<<>>, ExampleToken}
                  \cup {Embrace(Hex(ExampleBytes), e) :
                          e \in {"none", "pair", "open", "close", "two"}}}

\* a call of match on a directory, the header and the payload holding what
\* they hold when the pair names them
InitMatch ==
    /\ ConvertIdle
    /\ fe = IdleFrontend
    /\ pl = IdlePlanner
    /\ cp = IdleCopy
    /\ ts = IdleTemp
    /\ ix = IdleIndex
    /\ \E dir \in MatchDirs, header \in MatchHeaders,
          bytes \in {ExampleBytes, SubSeq(ExampleBytes, 1, 15), <<>>} :
         uu = [pc |-> "match", dir |-> dir, pair |-> None, header |-> header,
               ibd |-> [kind |-> "file", bytes |-> bytes],
               ibd_uuid |-> <<>>, result |-> "none"]

\* lines 79-84: without a pair match returns False; with one it returns what
\* check_uuid(*pair) returns. A payload path that is not in the directory
\* names no file.
Match ==
    /\ uu.pc = "match"
    /\ LET pair == get_imzml_pair(uu.dir)
       IN  uu' = IF pair = None
                 THEN [uu EXCEPT !.pc = "done", !.result = "False"]
                 ELSE [uu EXCEPT !.pc = "read_ibd", !.pair = pair,
                                 !.ibd = IF pair[2] \in Range(uu.dir.files) THEN @
                                         ELSE [kind |-> "missing", bytes |-> <<>>]]
    /\ UNCHANGED <<convertVars, fe, pl, cp, ts, ix>>

NextMatch == Match \/ CheckUuidReadIbd \/ CheckUuidCompare

SpecMatch == InitMatch /\ [][NextMatch]_vars

\* the header value opens a brace that it does not close
UnclosedBrace(value) ==
    value # <<>> /\ Head(value) = "{" /\ value[Len(value)] # "}"

\* C29: check_uuid never raises: for a missing or unreadable file, an empty
\* header, a header without the UUID element, a UUID value that is empty or
\* absent, or a value with an opening brace but no closing brace, it returns
\* False; and match returns False, never raising, when no pair is found or
\* the pair fails the check.
C29_NeverRaises ==
    /\ uu.result \in {"none", "True", "False"}
    /\ uu.pc = "done" =>
         /\ uu.result \in {"True", "False"}
         /\ uu.pair = None => uu.result = "False"
         /\ (uu.pair # None /\
             \/ uu.ibd.kind = "missing"
             \/ uu.header.kind \in {"missing", "empty", "no_uuid", "no_value"}
             \/ uu.header.value = <<>>
             \/ UnclosedBrace(uu.header.value))
            => uu.result = "False"

\* match found a pair whose header has no value attribute, and returned False
C29_Witness ==
    /\ uu.pc = "done"
    /\ uu.pair # None
    /\ uu.ibd.kind = "file"
    /\ uu.header.kind = "no_value"
    /\ uu.result = "False"

-----------------------------------------------------------------------------
(* backend.py: add_chunk_idx called again on the same record table         *)

\* a record table inside a grid without its chunk_idx column, a spatial shape
\* and no call made yet
InitIndex ==
    /\ ConvertIdle
    /\ fe = IdleFrontend
    /\ pl = IdlePlanner
    /\ uu = IdleUuid
    /\ cp = IdleCopy
    /\ ts = IdleTemp
    /\ \E grid \in Grids :
         \E S \in RecordSets(grid) :
           ix = [pc |-> "ready",
                 spatial_shape |-> <<1, grid[1], grid[2]>>,
                 spatial_chunks |-> <<0, 0, 0>>,
                 table |-> [has_chunk_idx |-> FALSE,
                            spectra |-> ParseSpectra(
                                HeaderSpectra(PixelSeq(S, grid[2]),
                                              [i \in 1..Cardinality(S) |-> 1],
                                              TRUE, 8, 4))],
                 flat_to_idx |-> <<>>,
                 calls |-> 0]

\* the ZYX chunk shapes a caller may pass for a spatial shape
SpatialChunks(spatial_shape) ==
    {<<1, cy, cx>> : cy \in 1..spatial_shape[2], cx \in 1..spatial_shape[3]}

\* lines 128-156: one call add_chunk_idx(spatial_shape, spatial_chunks,
\* spectra) on the table: the mapping is returned, the column is assigned if
\* the table has none
AddChunkIdx ==
    /\ ix.pc \in {"ready", "indexed"}
    /\ ix.calls < MaxCalls
    /\ \E spatial_chunks \in SpatialChunks(ix.spatial_shape) :
         ix' = [ix EXCEPT
                  !.pc = "indexed",
                  !.spatial_chunks = spatial_chunks,
                  !.table = WithChunkIdx(@, ix.spatial_shape, spatial_chunks),
                  !.flat_to_idx = FlatToIdx(ix.table.spectra, ix.spatial_shape,
                                            spatial_chunks),
                  !.calls = @ + 1]
    /\ UNCHANGED <<convertVars, fe, pl, uu, cp, ts>>

NextIndex == AddChunkIdx

SpecIndex == InitIndex /\ [][NextIndex]_vars

\* C30: after any sequence of add_chunk_idx calls on the same record table,
\* possibly with different chunk shapes, every record's stored chunk_idx is a
\* key of the most recently returned mapping and maps there to the record's
\* chunk coordinate under the most recent chunk shape.
C30_StoredIdxMatchesLastMapping ==
    ix.pc = "indexed" =>
        \A i \in 1..Len(ix.table.spectra) :
            LET r == ix.table.spectra[i]
            IN  /\ r.chunk_idx \in DOMAIN ix.flat_to_idx
                /\ ix.flat_to_idx[r.chunk_idx] = PerChunkIdx(r, ix.spatial_chunks)
=============================================================================
